---- MODULE Spec2Model ----
(***************************************************************************)
(* A model of the structuring utilities of                                 *)
(* angr/analyses/decompiler/structuring/structurer_base.py (StructurerBase)*)
(* Structured nodes are records tagged by "kind", AIL statements records   *)
(* tagged by "s", AIL expressions records tagged by "e".  Every pass of    *)
(* StructurerBase is an operator on node trees; each specification below   *)
(* draws the arguments of one pass from a bounded set and then calls it.   *)
(***************************************************************************)
EXTENDS Integers, Sequences, FiniteSets, TLC

VARIABLES
    pc,     \* position of the driver: which call comes next
    node,   \* the node tree (or case mapping, or parent node) mutated in place
    old,    \* the value of `node` when the most recent call started
    args,   \* the other arguments of the call
    ret     \* what the most recent call returned or raised

vars == <<pc, node, old, args, ret>>

(***************************************************************************)
(* Bounds of the model.                                                    *)
(***************************************************************************)
MaxAddr == 2    \* addresses are 1..MaxAddr
MaxLen == 3     \* longest flat sequence of sibling blocks that is drawn
MaxStmts == 2   \* longest statement list of a block

Addrs == 1..MaxAddr
PosAddr(i) == ((i - 1) % MaxAddr) + 1

Last(s) == s[Len(s)]
Front(s) == SubSeq(s, 1, Len(s) - 1)

(***************************************************************************)
(* AIL expressions and statements.                                         *)
(***************************************************************************)
None == [e |-> "None"]
Const(v) == [e |-> "Const", value |-> v]
Idx(v) == [e |-> "Idx", value |-> v]
Cond(n) == [e |-> "Cond", id |-> n]
UnaryOpNot(c) == [e |-> "Not", operand |-> c]
IsConst(x) == x.e = "Const"

Stmt(ins) == [s |-> "Stmt", ins_addr |-> ins]
Jump(target, target_idx, ins) ==
    [s |-> "Jump", target |-> target, target_idx |-> target_idx, ins_addr |-> ins]
ConditionalJump(cond, tt, ft, tidx, fidx, ins) ==
    [s |-> "ConditionalJump", condition |-> cond, true_target |-> tt,
     false_target |-> ft, true_target_idx |-> tidx, false_target_idx |-> fidx,
     ins_addr |-> ins]
IsJump(st) == st.s = "Jump"
IsConditionalJump(st) == st.s = "ConditionalJump"

(***************************************************************************)
(* Structured nodes.                                                       *)
(***************************************************************************)
NoNode == [kind |-> "None"]
Block(addr, size, stmts) ==
    [kind |-> "Block", addr |-> addr, original_size |-> size, statements |-> stmts]
MultiNode(addr, nodes) == [kind |-> "MultiNode", addr |-> addr, nodes |-> nodes]
SequenceNode(addr, nodes) == [kind |-> "Sequence", addr |-> addr, nodes |-> nodes]
CodeNode(n) == [kind |-> "Code", addr |-> n.addr, node |-> n]
ConditionNode(addr, cond, tn, fn) ==
    [kind |-> "Condition", addr |-> addr, condition |-> cond,
     true_node |-> tn, false_node |-> fn]
LoopNode(sort, cond, seq, addr) ==
    [kind |-> "Loop", addr |-> addr, sort |-> sort, condition |-> cond,
     sequence_node |-> seq]
BreakNode(addr, target) == [kind |-> "Break", addr |-> addr, target |-> target]
ConditionalBreakNode(addr, cond, target) ==
    [kind |-> "ConditionalBreak", addr |-> addr, condition |-> cond, target |-> target]
ContinueNode(addr, target) == [kind |-> "Continue", addr |-> addr, target |-> target]

IsBlock(n) == n.kind = "Block"
EndsWithJumpStmt(n) ==
    /\ IsBlock(n)
    /\ Len(n.statements) > 0
    /\ Last(n.statements).s \in {"Jump", "ConditionalJump"}

(***************************************************************************)
(* _remove_redundant_jumps (structurer_base.py 279-424).                   *)
(* The pass installs a Sequence handler and a MultiNode handler on a       *)
(* SequenceWalker.  Each handler first rewrites the trailing jump of every *)
(* child but the last against the address of the next sibling, then lets   *)
(* the walker recurse into the children.                                   *)
(***************************************************************************)

\* lines 311-348: the Sequence handler's rewrite of a trailing jump statement
rrj_Sequence_rewrite(stmts, next_addr) ==
    LET jump_stmt == Last(stmts) IN
    IF IsJump(jump_stmt)
    THEN IF IsConst(jump_stmt.target) /\ jump_stmt.target.value = next_addr
         THEN Front(stmts)
         ELSE stmts
    ELSE IF IsConst(jump_stmt.true_target) /\ jump_stmt.true_target.value = next_addr
         THEN [stmts EXCEPT ![Len(stmts)] =
                  ConditionalJump(UnaryOpNot(jump_stmt.condition),
                                  jump_stmt.false_target, None,
                                  jump_stmt.false_target_idx, None,
                                  jump_stmt.ins_addr)]
         ELSE IF IsConst(jump_stmt.false_target)
                 /\ jump_stmt.false_target.value = next_addr
              THEN [stmts EXCEPT ![Len(stmts)] =
                       ConditionalJump(jump_stmt.condition,
                                       jump_stmt.true_target, None,
                                       jump_stmt.true_target_idx, None,
                                       jump_stmt.ins_addr)]
              ELSE stmts

\* lines 375-412: the MultiNode handler's rewrite of a trailing jump statement
rrj_MultiNode_rewrite(stmts, next_addr) ==
    LET jump_stmt == Last(stmts) IN
    IF IsJump(jump_stmt)
    THEN IF IsConst(jump_stmt.target) /\ jump_stmt.target.value = next_addr
         THEN Front(stmts)
         ELSE stmts
    ELSE IF IsConst(jump_stmt.true_target) /\ jump_stmt.true_target.value = next_addr
         THEN [stmts EXCEPT ![Len(stmts)] =
                  ConditionalJump(UnaryOpNot(jump_stmt.condition),
                                  jump_stmt.false_target, None,
                                  jump_stmt.false_target_idx, None,
                                  jump_stmt.ins_addr)]
         ELSE IF IsConst(jump_stmt.false_target)
                 /\ jump_stmt.false_target.value = next_addr
              THEN [stmts EXCEPT ![Len(stmts)] =
                       ConditionalJump(jump_stmt.condition,
                                       jump_stmt.true_target, None,
                                       jump_stmt.false_target_idx, None,
                                       jump_stmt.ins_addr)]
              ELSE stmts

\* lines 291-309: which block of child i carries the jump (Sequence handler)
rrj_Sequence_child(this_node, next_addr) ==
    IF EndsWithJumpStmt(this_node)
    THEN [this_node EXCEPT !.statements = rrj_Sequence_rewrite(@, next_addr)]
    ELSE IF /\ this_node.kind = "MultiNode"
            /\ Len(this_node.nodes) > 0
            /\ EndsWithJumpStmt(Last(this_node.nodes))
         THEN [this_node EXCEPT !.nodes[Len(this_node.nodes)].statements =
                  rrj_Sequence_rewrite(@, next_addr)]
         ELSE this_node

\* lines 355-373: which block of child i carries the jump (MultiNode handler)
rrj_MultiNode_child(this_node, next_addr) ==
    IF EndsWithJumpStmt(this_node)
    THEN [this_node EXCEPT !.statements = rrj_MultiNode_rewrite(@, next_addr)]
    ELSE IF /\ this_node.kind = "MultiNode"
            /\ Len(this_node.nodes) > 0
            /\ EndsWithJumpStmt(Last(this_node.nodes))
         THEN [this_node EXCEPT !.nodes[Len(this_node.nodes)].statements =
                  rrj_MultiNode_rewrite(@, next_addr)]
         ELSE this_node

RECURSIVE _remove_redundant_jumps(_)
\* lines 288-350 (_handle_Sequence), 352-414 (_handle_MultiNode), 416-424 (the
\* walk); a Condition or Loop child is entered by the walker's default handlers
_remove_redundant_jumps(n) ==
    CASE n.kind = "Sequence" ->
           [n EXCEPT !.nodes = [i \in 1..Len(n.nodes) |->
               _remove_redundant_jumps(
                   IF i < Len(n.nodes)
                   THEN rrj_Sequence_child(n.nodes[i], n.nodes[i + 1].addr)
                   ELSE n.nodes[i])]]
      [] n.kind = "MultiNode" ->
           [n EXCEPT !.nodes = [i \in 1..Len(n.nodes) |->
               _remove_redundant_jumps(
                   IF i < Len(n.nodes)
                   THEN rrj_MultiNode_child(n.nodes[i], n.nodes[i + 1].addr)
                   ELSE n.nodes[i])]]
      [] n.kind = "Condition" ->
           [n EXCEPT !.true_node = _remove_redundant_jumps(@),
                     !.false_node = _remove_redundant_jumps(@)]
      [] n.kind = "Loop" ->
           [n EXCEPT !.sequence_node = _remove_redundant_jumps(@)]
      [] OTHER -> n

(***************************************************************************)
(* Arguments drawn for _remove_redundant_jumps: blocks whose statement     *)
(* list is empty, a plain statement, or a plain statement followed by a    *)
(* Jump or a ConditionalJump with every combination of targets.            *)
(***************************************************************************)
Register == [e |-> "Register"]
Targets == {None} \cup {Const(a) : a \in Addrs}
TrailingJumps(a) ==
    {Jump(t, None, a) : t \in {Const(x) : x \in Addrs} \cup {Register}}
    \cup {ConditionalJump(Cond(1), tt, ft,
                          IF tt = None THEN None ELSE Idx(1),
                          IF ft = None THEN None ELSE Idx(2), a) :
              tt \in Targets, ft \in Targets}
BlocksAt(a) ==
    {Block(a, 1, <<>>), Block(a, 1, <<Stmt(a)>>)}
    \cup {Block(a, 1, <<Stmt(a), j>>) : j \in TrailingJumps(a)}
\* the runs of n sibling blocks, the i-th at address PosAddr(i), of which all
\* but the last two are plain
BlockRuns(n) ==
    IF n = 1 THEN {<<b>> : b \in BlocksAt(PosAddr(1))}
    ELSE {[i \in 1..(n - 2) |-> Block(PosAddr(i), 1, <<Stmt(PosAddr(i))>>)] \o <<b1, b2>> :
             b1 \in BlocksAt(PosAddr(n - 1)), b2 \in BlocksAt(PosAddr(n))}
RRJInputs ==
    {SequenceNode(1, r) : r \in UNION {BlockRuns(n) : n \in 1..MaxLen}}
    \cup {SequenceNode(1, <<MultiNode(1, SubSeq(r, 1, 2)), r[3]>>) : r \in BlockRuns(3)}
    \cup {SequenceNode(1, <<MultiNode(1, r)>>) : r \in BlockRuns(2)}
    \cup {SequenceNode(1, <<SequenceNode(1, SubSeq(r, 1, 2)), r[3]>>) : r \in BlockRuns(3)}
    \cup {SequenceNode(1, <<MultiNode(1, <<MultiNode(1, SubSeq(r, 1, 2)), r[3]>>),
                            Block(PosAddr(4), 1, <<>>)>>) : r \in BlockRuns(3)}

RRJInit ==
    /\ pc = "start"
    /\ node \in RRJInputs
    /\ old = node
    /\ args = [seq |-> node]
    /\ ret = NoNode

\* seq = _remove_redundant_jumps(seq), called once and then on its own output
RRJCall ==
    /\ pc \in {"start", "once"}
    /\ old' = node
    /\ node' = _remove_redundant_jumps(node)
    /\ ret' = node'
    /\ pc' = IF pc = "start" THEN "once" ELSE "twice"
    /\ UNCHANGED args

RRJNext == RRJCall

SpecRRJ == RRJInit /\ [][RRJNext]_vars

\* C1: idempotence of redundant-jump removal: the second application of
\* _remove_redundant_jumps to its own output leaves every block's statement
\* list exactly as it was after the first application.
C1_Idempotent == pc = "twice" => node = old

(***************************************************************************)
(* Helpers of angr.analyses.decompiler.utils used by the passes.           *)
(***************************************************************************)

\* extract_jump_targets: the concrete (Const) targets of a Jump or ConditionalJump
extract_jump_targets(stmt) ==
    IF IsJump(stmt)
    THEN IF IsConst(stmt.target) THEN <<stmt.target.value>> ELSE <<>>
    ELSE IF IsConditionalJump(stmt)
         THEN (IF IsConst(stmt.true_target) THEN <<stmt.true_target.value>> ELSE <<>>)
              \o (IF IsConst(stmt.false_target) THEN <<stmt.false_target.value>> ELSE <<>>)
         ELSE <<>>

Range(f) == {f[i] : i \in DOMAIN f}

\* claripy boolean ASTs: symbols, and Not/And/Or built by claripy's constructors;
\* Not(Not(a)) folds to a when it is built
BoolS(n) == [e |-> "BoolS", id |-> n]
IsClaripy(c) == c.e \in {"BoolS", "claripy.Not", "claripy.And", "claripy.Or"}
claripy_Not(a) ==
    IF a.e = "claripy.Not" THEN a.operand ELSE [e |-> "claripy.Not", operand |-> a]
claripy_Or(a, b) == [e |-> "claripy.Or", args |-> <<a, b>>]
claripy_And(a, b) == [e |-> "claripy.And", args |-> <<a, b>>]

RECURSIVE claripy_ast_from_ail_condition(_)
\* cond_proc.claripy_ast_from_ail_condition: the claripy AST of an AIL condition
\* (a claripy AST is returned as it is)
claripy_ast_from_ail_condition(c) ==
    IF IsClaripy(c) THEN c
    ELSE IF c.e = "Not" THEN claripy_Not(claripy_ast_from_ail_condition(c.operand))
    ELSE BoolS(c.id)

\* insert_node(parent, "after", new_nodes..., index) on a list of children
InsertAfter(nodes, index, new_nodes) ==
    SubSeq(nodes, 1, index) \o new_nodes \o SubSeq(nodes, index + 1, Len(nodes))

(***************************************************************************)
(* _loop_create_break_node (structurer_base.py 611-659).                   *)
(* The result is [raised, node]: raised stands for AngrDecompilationError. *)
(***************************************************************************)
Returned(n) == [raised |-> FALSE, node |-> n]
Raised(err) == [raised |-> TRUE, node |-> NoNode, error |-> err]

InSuccessors(t, loop_successor_addrs) == IsConst(t) /\ t.value \in loop_successor_addrs

\* mutant: the final else branch only logs the warning and returns None
loop_create_break_node_no_raise(last_stmt, loop_successor_addrs) ==
    IF IsJump(last_stmt)
    THEN Returned(BreakNode(last_stmt.ins_addr, last_stmt.target.value))
    ELSE IF IsConditionalJump(last_stmt)
    THEN LET tt == last_stmt.true_target
             ft == last_stmt.false_target
         IN  IF InSuccessors(tt, loop_successor_addrs)
                /\ ~InSuccessors(ft, loop_successor_addrs)
             THEN Returned(ConditionalBreakNode(last_stmt.ins_addr,
                      claripy_ast_from_ail_condition(last_stmt.condition), tt.value))
             ELSE IF InSuccessors(ft, loop_successor_addrs)
                     /\ ~InSuccessors(tt, loop_successor_addrs)
             THEN Returned(ConditionalBreakNode(last_stmt.ins_addr,
                      claripy_ast_from_ail_condition(UnaryOpNot(last_stmt.condition)),
                      ft.value))
             ELSE IF InSuccessors(ft, loop_successor_addrs)
                     /\ InSuccessors(tt, loop_successor_addrs)
             THEN Returned(BreakNode(last_stmt.ins_addr, ft.value))
             ELSE Returned(NoNode)
    ELSE Returned(NoNode)

\* a variant whose false-target branch keeps the condition as it is
loop_create_break_node_unnegated(last_stmt, loop_successor_addrs) ==
    IF IsJump(last_stmt)
    THEN Returned(BreakNode(last_stmt.ins_addr, last_stmt.target.value))
    ELSE IF IsConditionalJump(last_stmt)
    THEN LET tt == last_stmt.true_target
             ft == last_stmt.false_target
         IN  IF InSuccessors(tt, loop_successor_addrs)
                /\ ~InSuccessors(ft, loop_successor_addrs)
             THEN Returned(ConditionalBreakNode(last_stmt.ins_addr,
                      claripy_ast_from_ail_condition(last_stmt.condition), tt.value))
             ELSE IF InSuccessors(ft, loop_successor_addrs)
                     /\ ~InSuccessors(tt, loop_successor_addrs)
             THEN Returned(ConditionalBreakNode(last_stmt.ins_addr,
                      claripy_ast_from_ail_condition(last_stmt.condition), ft.value))
             ELSE IF InSuccessors(ft, loop_successor_addrs)
                     /\ InSuccessors(tt, loop_successor_addrs)
             THEN Returned(BreakNode(last_stmt.ins_addr, ft.value))
             ELSE Raised("AngrDecompilationError")
    ELSE Returned(NoNode)

_loop_create_break_node(last_stmt, loop_successor_addrs) ==
    IF IsJump(last_stmt)
    THEN Returned(BreakNode(last_stmt.ins_addr, last_stmt.target.value))
    ELSE IF IsConditionalJump(last_stmt)
    THEN LET tt == last_stmt.true_target
             ft == last_stmt.false_target
         IN  IF InSuccessors(tt, loop_successor_addrs)
                /\ ~InSuccessors(ft, loop_successor_addrs)
             THEN Returned(ConditionalBreakNode(last_stmt.ins_addr,
                      claripy_ast_from_ail_condition(last_stmt.condition), tt.value))
             ELSE IF InSuccessors(ft, loop_successor_addrs)
                     /\ ~InSuccessors(tt, loop_successor_addrs)
             THEN Returned(ConditionalBreakNode(last_stmt.ins_addr,
                      claripy_ast_from_ail_condition(UnaryOpNot(last_stmt.condition)),
                      ft.value))
             ELSE IF InSuccessors(ft, loop_successor_addrs)
                     /\ InSuccessors(tt, loop_successor_addrs)
             THEN Returned(BreakNode(last_stmt.ins_addr, ft.value))
             ELSE Raised("AngrDecompilationError")
    ELSE Returned(NoNode)

(***************************************************************************)
(* _rewrite_conditional_jumps_to_breaks (structurer_base.py 426-509).      *)
(* A Block handler is installed on a SequenceWalker; LoopNode and          *)
(* SwitchCaseNode get a handler that does nothing, so nested loops are not *)
(* entered.  ctx is what the handler reads of its parent: whether it is a  *)
(* SequenceNode, and the address of the node that follows the block.       *)
(***************************************************************************)
Ctx(is_seq, nodes, i) ==
    [is_seq |-> is_seq, has_next |-> i < Len(nodes),
     next_addr |-> IF i < Len(nodes) THEN nodes[i + 1].addr ELSE 0]
NoCtx == [is_seq |-> FALSE, has_next |-> FALSE, next_addr |-> 0]

\* lines 439-447: a jump straight to the next sibling of the same SequenceNode
brk_skipped(stmt, ctx) ==
    /\ IsJump(stmt)
    /\ ctx.is_seq
    /\ ctx.has_next
    /\ IsConst(stmt.target)
    /\ ctx.next_addr = stmt.target.value

\* lines 437-449: a statement that is turned into a break node
brk_is_exit(stmt, ctx, successor_addrs) ==
    /\ IsJump(stmt) \/ IsConditionalJump(stmt)
    /\ ~brk_skipped(stmt, ctx)
    /\ \E t \in Range(extract_jump_targets(stmt)) : t \in successor_addrs

RECURSIVE brk_scan(_, _, _, _, _, _)
\* lines 436-479: the loop over the statements (k counts from 1; last is the
\* first statement not yet moved to a new node)
brk_scan(blk, ctx, successor_addrs, k, last, new_nodes) ==
    IF k > Len(blk.statements)
    THEN [last |-> last, new_nodes |-> new_nodes]
    ELSE LET stmt == blk.statements[k]
             sub == IF k > last
                    THEN <<Block(blk.statements[last].ins_addr,
                                 stmt.ins_addr - blk.statements[last].ins_addr,
                                 SubSeq(blk.statements, last, k - 1))>>
                    ELSE <<>>
         IN  IF brk_is_exit(stmt, ctx, successor_addrs)
             THEN brk_scan(blk, ctx, successor_addrs, k + 1, k + 1,
                      new_nodes \o sub
                        \o <<_loop_create_break_node(stmt, successor_addrs).node>>)
             ELSE brk_scan(blk, ctx, successor_addrs, k + 1, last, new_nodes)

\* mutant: the handler inserts the new nodes but forgets `node.statements = []`
rewrite_jump_to_break_keeps_statements(blk, ctx, successor_addrs) ==
    IF Len(blk.statements) = 0 THEN <<blk>>
    ELSE LET r == brk_scan(blk, ctx, successor_addrs, 1, 1, <<>>)
         IN  IF Len(r.new_nodes) > 0 THEN <<blk>> \o r.new_nodes ELSE <<blk>>

\* lines 427-497: the nodes that stand in the parent where the block stood
_rewrite_conditional_jump_to_break(blk, ctx, successor_addrs) ==
    IF Len(blk.statements) = 0 THEN <<blk>>
    ELSE LET r == brk_scan(blk, ctx, successor_addrs, 1, 1, <<>>)
             n == Len(blk.statements)
             tail == IF n > r.last
                     THEN <<Block(blk.statements[r.last].ins_addr,
                                  blk.addr + blk.original_size
                                    - blk.statements[r.last].ins_addr,
                                  SubSeq(blk.statements, r.last, n))>>
                     ELSE <<>>
         IN  IF Len(r.new_nodes) > 0
             THEN <<[blk EXCEPT !.statements = <<>>]>> \o r.new_nodes \o tail
             ELSE <<blk>>

\* insert_node on a ConditionNode parent: the child in the slot is wrapped in a
\* new SequenceNode as soon as something is inserted after it
WrapInserted(child, r) == IF Len(r) > 1 THEN SequenceNode(child.addr, r) ELSE r[1]

RECURSIVE brk_walk(_, _)
RECURSIVE brk_children(_, _, _, _)
\* the walker's pass over a child list, from index i on
brk_children(nodes, i, is_seq, successor_addrs) ==
    IF i > Len(nodes) THEN <<>>
    ELSE (IF IsBlock(nodes[i])
          THEN _rewrite_conditional_jump_to_break(nodes[i], Ctx(is_seq, nodes, i),
                                                  successor_addrs)
          ELSE <<brk_walk(nodes[i], successor_addrs)>>)
         \o brk_children(nodes, i + 1, is_seq, successor_addrs)

brk_slot(child, successor_addrs) ==
    IF IsBlock(child)
    THEN WrapInserted(child,
             _rewrite_conditional_jump_to_break(child, NoCtx, successor_addrs))
    ELSE brk_walk(child, successor_addrs)

\* lines 499-509: the walk; _dummy for LoopNode and SwitchCaseNode
brk_walk(n, successor_addrs) ==
    CASE n.kind = "Sequence" ->
           [n EXCEPT !.nodes = brk_children(@, 1, TRUE, successor_addrs)]
      [] n.kind = "MultiNode" ->
           [n EXCEPT !.nodes = brk_children(@, 1, FALSE, successor_addrs)]
      [] n.kind = "Condition" ->
           [n EXCEPT !.true_node = brk_slot(@, successor_addrs),
                     !.false_node = brk_slot(@, successor_addrs)]
      [] OTHER -> n

_rewrite_conditional_jumps_to_breaks(loop_node, successor_addrs) ==
    brk_walk(loop_node, successor_addrs)

RECURSIVE brk_raised(_, _, _)
\* no try/except stands between _loop_create_break_node and the caller of the
\* pass: the pass raises when a call it makes raises
brk_raised(n, ctx, successor_addrs) ==
    CASE n.kind = "Block" ->
           \E k \in 1..Len(n.statements) :
               /\ brk_is_exit(n.statements[k], ctx, successor_addrs)
               /\ _loop_create_break_node(n.statements[k], successor_addrs).raised
      [] n.kind = "Sequence" ->
           \E i \in 1..Len(n.nodes) :
               brk_raised(n.nodes[i], Ctx(TRUE, n.nodes, i), successor_addrs)
      [] n.kind = "MultiNode" ->
           \E i \in 1..Len(n.nodes) :
               brk_raised(n.nodes[i], Ctx(FALSE, n.nodes, i), successor_addrs)
      [] n.kind = "Condition" ->
           \/ brk_raised(n.true_node, NoCtx, successor_addrs)
           \/ brk_raised(n.false_node, NoCtx, successor_addrs)
      [] OTHER -> FALSE

(***************************************************************************)
(* Arguments drawn for the loop passes: one block with at most MaxStmts    *)
(* statements, the last two of them any of plain statement, Jump and       *)
(* ConditionalJump and the ones before them plain, placed in each kind of  *)
(* parent; and two sibling blocks that each end with a jump.               *)
(***************************************************************************)
AnyStmts(a) ==
    {Stmt(a)}
    \cup {Jump(Const(t), None, a) : t \in Addrs}
    \cup {ConditionalJump(Cond(1), Const(tt), ft, None, None, a) :
              tt \in Addrs, ft \in Targets}
\* the lists of at most n statements of which all but the last two are plain
StmtLists(a, n) ==
    {<<>>}
    \cup (IF n >= 1 THEN {<<st>> : st \in AnyStmts(a)} ELSE {})
    \cup (IF n >= 2
          THEN {[i \in 1..k |-> Stmt(a)] \o <<s1, s2>> :
                   k \in 0..(n - 2), s1 \in AnyStmts(a), s2 \in AnyStmts(a)}
          ELSE {})
AnyBlocks(a) == {Block(a, 1, l) : l \in StmtLists(a, MaxStmts)}
JumpBlocks(a) == {Block(a, 1, <<st>>) : st \in AnyStmts(a) \ {Stmt(a)}}
Plain(a) == Block(a, 1, <<Stmt(a)>>)
InnerLoop(body) == LoopNode("while", None, SequenceNode(body.addr, <<body>>), body.addr)
LoopBodies ==
    UNION {
      { SequenceNode(1, <<b, Plain(2)>>),
        SequenceNode(2, <<Plain(2), b>>),
        SequenceNode(1, <<MultiNode(1, <<b, Plain(2)>>)>>),
        SequenceNode(1, <<ConditionNode(1, BoolS(2), b, NoNode), Plain(2)>>),
        SequenceNode(2, <<ConditionNode(2, BoolS(2), Plain(2), b)>>),
        SequenceNode(1, <<InnerLoop(b), Plain(2)>>) } : b \in AnyBlocks(1) }
    \cup {SequenceNode(1, <<b1, b2>>) : b1 \in JumpBlocks(1), b2 \in JumpBlocks(2)}

BrkInit ==
    /\ pc = "start"
    /\ node \in LoopBodies
    /\ old = node
    /\ args \in {[successor_addrs |-> ss] : ss \in SUBSET Addrs}
    /\ ret = Returned(NoNode)

\* self._rewrite_conditional_jumps_to_breaks(loop_node, successor_addrs)
BrkCall ==
    /\ pc = "start"
    /\ old' = node
    /\ node' = _rewrite_conditional_jumps_to_breaks(node, args.successor_addrs)
    /\ ret' = IF brk_raised(node, NoCtx, args.successor_addrs)
              THEN Raised("AngrDecompilationError")
              ELSE Returned(NoNode)
    /\ pc' = "done"
    /\ UNCHANGED args

BrkNext == BrkCall

SpecBrk == BrkInit /\ [][BrkNext]_vars

(***************************************************************************)
(* What the claims about the loop passes measure on a tree.                *)
(***************************************************************************)
RECURSIVE SumSeq(_)
SumSeq(q) == IF Len(q) = 0 THEN 0 ELSE q[1] + SumSeq(Tail(q))

HasTargetIn(st, addrs) ==
    /\ IsJump(st) \/ IsConditionalJump(st)
    /\ \E t \in Range(extract_jump_targets(st)) : t \in addrs

RECURSIVE JumpsTo(_, _, _)
\* the Jump/ConditionalJump statements with a target in addrs that the blocks of
\* n hold; the bodies of nested LoopNodes are looked into only when deep
JumpsTo(n, addrs, deep) ==
    CASE n.kind = "Block" ->
           {n.statements[k] : k \in {j \in 1..Len(n.statements) :
                                        HasTargetIn(n.statements[j], addrs)}}
      [] n.kind \in {"Sequence", "MultiNode"} ->
           UNION {JumpsTo(n.nodes[i], addrs, deep) : i \in 1..Len(n.nodes)}
      [] n.kind = "Condition" ->
           JumpsTo(n.true_node, addrs, deep) \cup JumpsTo(n.false_node, addrs, deep)
      [] n.kind = "Code" -> JumpsTo(n.node, addrs, deep)
      [] n.kind = "Loop" ->
           IF deep THEN JumpsTo(n.sequence_node, addrs, deep) ELSE {}
      [] OTHER -> {}

RECURSIVE SkippedJumps(_, _)
\* the unconditional Jumps of the blocks of n (nested loops apart) that go
\* straight to the next sibling of their block in the same SequenceNode
SkippedJumps(n, ctx) ==
    CASE n.kind = "Block" ->
           {n.statements[k] : k \in {j \in 1..Len(n.statements) :
                                        brk_skipped(n.statements[j], ctx)}}
      [] n.kind = "Sequence" ->
           UNION {SkippedJumps(n.nodes[i], Ctx(TRUE, n.nodes, i)) : i \in 1..Len(n.nodes)}
      [] n.kind = "MultiNode" ->
           UNION {SkippedJumps(n.nodes[i], Ctx(FALSE, n.nodes, i)) : i \in 1..Len(n.nodes)}
      [] n.kind = "Condition" ->
           SkippedJumps(n.true_node, NoCtx) \cup SkippedJumps(n.false_node, NoCtx)
      [] n.kind = "Code" -> SkippedJumps(n.node, NoCtx)
      [] OTHER -> {}

RECURSIVE CountExits(_, _, _)
\* how many statements of n (nested loops apart) the pass has to convert
CountExits(n, ctx, addrs) ==
    CASE n.kind = "Block" ->
           Cardinality({k \in 1..Len(n.statements) :
                           brk_is_exit(n.statements[k], ctx, addrs)})
      [] n.kind = "Sequence" ->
           SumSeq([i \in 1..Len(n.nodes) |->
                      CountExits(n.nodes[i], Ctx(TRUE, n.nodes, i), addrs)])
      [] n.kind = "MultiNode" ->
           SumSeq([i \in 1..Len(n.nodes) |->
                      CountExits(n.nodes[i], Ctx(FALSE, n.nodes, i), addrs)])
      [] n.kind = "Condition" ->
           CountExits(n.true_node, NoCtx, addrs) + CountExits(n.false_node, NoCtx, addrs)
      [] n.kind = "Code" -> CountExits(n.node, NoCtx, addrs)
      [] OTHER -> 0

RECURSIVE CountKinds(_, _)
\* how many nodes of n (nested loops apart) have a kind in kinds
CountKinds(n, kinds) ==
    (IF n.kind \in kinds THEN 1 ELSE 0)
    + CASE n.kind \in {"Sequence", "MultiNode"} ->
             SumSeq([i \in 1..Len(n.nodes) |-> CountKinds(n.nodes[i], kinds)])
        [] n.kind = "Condition" ->
             CountKinds(n.true_node, kinds) + CountKinds(n.false_node, kinds)
        [] n.kind = "Code" -> CountKinds(n.node, kinds)
        [] OTHER -> 0

BreakKinds == {"Break", "ConditionalBreak"}

\* C2 as claimed: after _rewrite_conditional_jumps_to_breaks returns, no Block
\* anywhere in the loop body holds a Jump or ConditionalJump with a target in
\* successor_addrs.
C2_NoExitJumpAnywhere ==
    pc = "done" => JumpsTo(node, args.successor_addrs, TRUE) = {}

\* C2 as amended: outside nested LoopNodes, the only jumps with a target in
\* successor_addrs that are left are unconditional Jumps that went straight to
\* the next sibling of their block in the same SequenceNode, and there is one
\* BreakNode or ConditionalBreakNode for every other such statement.
C2_ExitJumpsBecomeBreaks ==
    pc = "done" =>
        /\ JumpsTo(node, args.successor_addrs, FALSE) \subseteq SkippedJumps(old, NoCtx)
        /\ CountKinds(node, BreakKinds) = CountExits(old, NoCtx, args.successor_addrs)
        /\ ~ret.raised

\* a run where a Jump and a ConditionalJump to a successor have been converted
C2_Witness ==
    /\ pc = "done"
    /\ CountKinds(node, {"Break"}) > 0
    /\ CountKinds(node, {"ConditionalBreak"}) > 0
    /\ JumpsTo(old, args.successor_addrs, FALSE) # {}
    /\ JumpsTo(node, args.successor_addrs, FALSE) = {}

(***************************************************************************)
(* _loop_create_break_node called on its own, with every exit statement    *)
(* and every set of loop successor addresses.                              *)
(***************************************************************************)
ExitStmts ==
    {Stmt(1)}
    \cup {Jump(Const(t), None, 1) : t \in Addrs}
    \cup {ConditionalJump(c, tt, ft, None, None, 1) :
              c \in {Cond(1), UnaryOpNot(Cond(1))}, tt \in Targets, ft \in Targets}

LbnInit ==
    /\ pc = "start"
    /\ node = NoNode
    /\ old = NoNode
    /\ args \in {[last_stmt |-> st, loop_successor_addrs |-> ss] :
                    st \in ExitStmts, ss \in SUBSET Addrs}
    /\ ret = Returned(NoNode)

\* new_node = self._loop_create_break_node(last_stmt, loop_successor_addrs)
LbnCall ==
    /\ pc = "start"
    /\ ret' = _loop_create_break_node(args.last_stmt, args.loop_successor_addrs)
    /\ pc' = "done"
    /\ UNCHANGED <<node, old, args>>

LbnNext == LbnCall

SpecLbn == LbnInit /\ [][LbnNext]_vars

NeitherTargetInSuccessors ==
    /\ IsConditionalJump(args.last_stmt)
    /\ ~InSuccessors(args.last_stmt.true_target, args.loop_successor_addrs)
    /\ ~InSuccessors(args.last_stmt.false_target, args.loop_successor_addrs)

\* C4: given a ConditionalJump neither of whose targets is in the loop
\* successor address set, _loop_create_break_node raises
\* AngrDecompilationError and produces no Break/ConditionalBreak node.
C4_RaisesWhenNoBranchExits ==
    (pc = "done" /\ NeitherTargetInSuccessors) =>
        /\ ret.raised
        /\ ret.error = "AngrDecompilationError"
        /\ ret.node = NoNode

\* a call with a two-target ConditionalJump that stays inside the loop has raised
C4_Witness ==
    /\ pc = "done"
    /\ NeitherTargetInSuccessors
    /\ IsConst(args.last_stmt.true_target)
    /\ IsConst(args.last_stmt.false_target)
    /\ args.loop_successor_addrs # {}
    /\ ret.raised

(***************************************************************************)
(* _rewrite_jumps_to_continues (structurer_base.py 511-580) and            *)
(* _remove_continue_node_at_loop_body_ends (582-609).                      *)
(***************************************************************************)
MultiStatementExpression(ins) == [e |-> "MultiStatementExpression", ins_addr |-> ins]

\* lines 512-519
continue_node_addr(loop_seq, loop_node) ==
    IF /\ loop_node # NoNode
       /\ loop_node.sort = "do-while"
       /\ loop_node.condition.e = "MultiStatementExpression"
    THEN loop_node.condition.ins_addr
    ELSE loop_seq.addr

\* the same handler without lines 534 and 568
rewrite_jump_to_continue_keeps_jump(blk, cont) ==
    IF Len(blk.statements) > 0 /\ HasTargetIn(Last(blk.statements), {cont})
    THEN <<blk, ContinueNode(Last(blk.statements).ins_addr, cont)>>
    ELSE <<blk>>

\* lines 521-568: the nodes that stand in the parent where the block stood
_rewrite_jump_to_continue(blk, cont) ==
    IF Len(blk.statements) = 0 THEN <<blk>>
    ELSE LET stmt == Last(blk.statements)
             shrunk == [blk EXCEPT !.statements = Front(@)]
         IN  IF IsJump(stmt)
             THEN IF \E t \in Range(extract_jump_targets(stmt)) : t = cont
                  THEN <<shrunk, ContinueNode(stmt.ins_addr, cont)>>
                  ELSE <<blk>>
             ELSE IF IsConditionalJump(stmt)
             THEN LET hit_true == IsConst(stmt.true_target)
                                  /\ stmt.true_target.value = cont
                      hit_false == /\ ~hit_true
                                   /\ IsConst(stmt.false_target)
                                   /\ stmt.false_target.value = cont
                      c == claripy_ast_from_ail_condition(stmt.condition)
                      cond == IF hit_true THEN c ELSE claripy_Not(c)
                      other_target == IF hit_true THEN stmt.false_target
                                      ELSE stmt.true_target
                      jumpout_block == Block(stmt.ins_addr, 0,
                                             <<Jump(other_target, None, stmt.ins_addr)>>)
                      continue_node == ContinueNode(stmt.ins_addr, cont)
                  IN  IF ~(hit_true \/ hit_false) THEN <<blk>>
                      ELSE IF other_target # None
                      THEN <<shrunk,
                             ConditionNode(stmt.ins_addr, claripy_Not(cond),
                                           jumpout_block, NoNode),
                             continue_node>>
                      ELSE <<shrunk,
                             ConditionNode(stmt.ins_addr, cond, continue_node, NoNode)>>
             ELSE <<blk>>

RECURSIVE rjc_walk(_, _)
RECURSIVE rjc_children(_, _, _)
\* the walker's pass over a child list, from index i on
rjc_children(nodes, i, cont) ==
    IF i > Len(nodes) THEN <<>>
    ELSE (IF IsBlock(nodes[i])
          THEN _rewrite_jump_to_continue(nodes[i], cont)
          ELSE <<rjc_walk(nodes[i], cont)>>)
         \o rjc_children(nodes, i + 1, cont)

rjc_slot(child, cont) ==
    IF IsBlock(child)
    THEN WrapInserted(child, _rewrite_jump_to_continue(child, cont))
    ELSE rjc_walk(child, cont)

\* lines 570-579: the walk; _dummy for LoopNode
rjc_walk(n, cont) ==
    CASE n.kind \in {"Sequence", "MultiNode"} ->
           [n EXCEPT !.nodes = rjc_children(@, 1, cont)]
      [] n.kind = "Condition" ->
           [n EXCEPT !.true_node = rjc_slot(@, cont),
                     !.false_node = rjc_slot(@, cont)]
      [] OTHER -> n

\* a variant that looks at the last child of the loop body only
remove_continue_node_at_top_only(n) ==
    IF n.kind \in {"Sequence", "MultiNode"} /\ Len(n.nodes) > 0
       /\ Last(n.nodes).kind = "Continue"
    THEN [n EXCEPT !.nodes = Front(@)]
    ELSE n

RECURSIVE _remove_continue_node_at_loop_body_ends(_)
\* lines 582-609: only the last child of a Sequence or MultiNode is looked at;
\* a Condition in last position is entered by the walker's default handler
_remove_continue_node_at_loop_body_ends(n) ==
    CASE n.kind \in {"Sequence", "MultiNode"} ->
           IF Len(n.nodes) = 0 THEN n
           ELSE IF Last(n.nodes).kind = "Continue"
                THEN [n EXCEPT !.nodes = Front(@)]
                ELSE [n EXCEPT !.nodes[Len(n.nodes)] =
                         _remove_continue_node_at_loop_body_ends(@)]
      [] n.kind = "Condition" ->
           [n EXCEPT !.true_node = _remove_continue_node_at_loop_body_ends(@),
                     !.false_node = _remove_continue_node_at_loop_body_ends(@)]
      [] OTHER -> n

_rewrite_jumps_to_continues(loop_seq, loop_node) ==
    _remove_continue_node_at_loop_body_ends(
        rjc_walk(loop_seq, continue_node_addr(loop_seq, loop_node)))

(***************************************************************************)
(* Loop bodies for the continue pass: one block with any statements in     *)
(* each position of a list parent, in a branch of a ConditionNode, in a    *)
(* nested loop; two sibling blocks that each end with a jump.  The loop    *)
(* itself is absent, a while loop, or a do-while loop whose condition is a *)
(* multi-statement expression with its own address.                        *)
(***************************************************************************)
ContBodies ==
    UNION {
      { SequenceNode(1, <<b, Plain(2)>>),
        SequenceNode(2, <<Plain(2), b>>),
        SequenceNode(1, <<MultiNode(1, <<b, Plain(2)>>)>>),
        SequenceNode(2, <<Plain(2), MultiNode(1, <<Plain(2), b>>)>>),
        SequenceNode(1, <<ConditionNode(1, BoolS(2), SequenceNode(1, <<b>>), NoNode),
                          Plain(2)>>),
        SequenceNode(2, <<ConditionNode(2, BoolS(2), SequenceNode(2, <<Plain(2)>>),
                                        SequenceNode(1, <<b>>))>>),
        SequenceNode(1, <<InnerLoop(b), Plain(2)>>) } : b \in AnyBlocks(1) }
    \cup {SequenceNode(1, <<b1, b2>>) : b1 \in JumpBlocks(1), b2 \in JumpBlocks(2)}

ContLoops ==
    {NoNode,
     LoopNode("while", Cond(1), NoNode, 1),
     LoopNode("do-while", Cond(1), NoNode, 1)}
    \cup {LoopNode("do-while", MultiStatementExpression(a), NoNode, 1) : a \in Addrs}

ContInit ==
    /\ pc = "start"
    /\ node \in ContBodies
    /\ old = node
    /\ args \in {[loop_node |-> l] : l \in ContLoops}
    /\ ret = Returned(NoNode)

\* self._rewrite_jumps_to_continues(loop_seq, loop_node)
ContCall ==
    /\ pc = "start"
    /\ old' = node
    /\ node' = _rewrite_jumps_to_continues(node, args.loop_node)
    /\ pc' = "done"
    /\ UNCHANGED <<args, ret>>

ContNext == ContCall

SpecCont == ContInit /\ [][ContNext]_vars

RECURSIVE BlocksOf(_)
\* the blocks of n, nested loops apart
BlocksOf(n) ==
    CASE n.kind = "Block" -> {n}
      [] n.kind \in {"Sequence", "MultiNode"} ->
           UNION {BlocksOf(n.nodes[i]) : i \in 1..Len(n.nodes)}
      [] n.kind = "Condition" -> BlocksOf(n.true_node) \cup BlocksOf(n.false_node)
      [] OTHER -> {}

EndsAt(b, cont) == Len(b.statements) > 0 /\ HasTargetIn(Last(b.statements), {cont})

\* the jumps to cont that the pass is not written to take away: those that are
\* not the last statement of their block, and the Jump to the other target that
\* goes into the jump-out block when both targets are cont
KeptJumps(n, cont) ==
    UNION {
      {b.statements[k] : k \in {j \in 1..(Len(b.statements) - 1) :
                                   HasTargetIn(b.statements[j], {cont})}}
      \cup (IF /\ EndsAt(b, cont)
               /\ IsConditionalJump(Last(b.statements))
               /\ Last(b.statements).true_target = Const(cont)
               /\ Last(b.statements).false_target = Const(cont)
            THEN {Jump(Const(cont), None, Last(b.statements).ins_addr)}
            ELSE {}) : b \in BlocksOf(n)}

RECURSIVE ContinueSites(_, _, _)
\* how many blocks of n (nested loops apart) end with a jump to cont; with
\* inner, only those that have a sibling after them in a list parent
ContinueSites(n, cont, inner) ==
    CASE n.kind = "Block" -> IF EndsAt(n, cont) /\ ~inner THEN 1 ELSE 0
      [] n.kind \in {"Sequence", "MultiNode"} ->
           SumSeq([i \in 1..Len(n.nodes) |->
                      IF IsBlock(n.nodes[i])
                      THEN (IF EndsAt(n.nodes[i], cont) /\ (~inner \/ i < Len(n.nodes))
                            THEN 1 ELSE 0)
                      ELSE ContinueSites(n.nodes[i], cont, inner)])
      [] n.kind = "Condition" ->
           ContinueSites(n.true_node, cont, inner)
           + ContinueSites(n.false_node, cont, inner)
      [] OTHER -> 0

\* C3 as stated: after _rewrite_jumps_to_continues returns, no Block of the loop
\* body, at any depth, holds a Jump or ConditionalJump whose target is the
\* continue address.
C3_NoContinueJumpAnywhere ==
    pc = "done" =>
        JumpsTo(node, {continue_node_addr(old, args.loop_node)}, TRUE) = {}

\* C3 as the code has it: outside nested LoopNodes, every Jump or
\* ConditionalJump that ended a Block and had the continue address as a target
\* is gone from its block and a ContinueNode stands for it (the one that would
\* end the loop body is dropped again); the jumps to the continue address that
\* remain are those that did not end their block, the Jump of the new jump-out
\* block, and those inside nested LoopNodes, which are left as they were.
C3_TrailingJumpsBecomeContinues ==
    pc = "done" =>
        LET cont == continue_node_addr(old, args.loop_node)
        IN  /\ JumpsTo(node, {cont}, FALSE) \subseteq KeptJumps(old, cont)
            /\ CountKinds(node, {"Continue"}) >= ContinueSites(old, cont, TRUE)
            /\ CountKinds(node, {"Continue"}) <= ContinueSites(old, cont, FALSE)
            /\ JumpsTo(old, {cont}, TRUE) \ JumpsTo(old, {cont}, FALSE)
                   \subseteq JumpsTo(node, {cont}, TRUE)
            /\ \A b \in BlocksOf(old) : EndsAt(b, cont) =>
                   [b EXCEPT !.statements = Front(@)] \in BlocksOf(node)

\* a block ended with a ConditionalJump to the continue address of a do-while
\* loop with a multi-statement condition, and got its jump-out ConditionNode
\* and its ContinueNode
C3_Witness ==
    /\ pc = "done"
    /\ args.loop_node # NoNode
    /\ continue_node_addr(old, args.loop_node) # old.addr
    /\ CountKinds(node, {"Condition"}) > CountKinds(old, {"Condition"})
    /\ CountKinds(node, {"Continue"}) > 0
    /\ ContinueSites(old, continue_node_addr(old, args.loop_node), TRUE) > 0

(***************************************************************************)
(* _reorganize_switch_cases (structurer_base.py 797-877).  The case nodes  *)
(* live in a heap (node maps a reference to the SequenceNode it holds), so *)
(* that the ordered mappings hold references, as the OrderedDicts do.      *)
(***************************************************************************)
MaxCases == 3

Label(name, ins) == [s |-> "Label", name |-> name, ins_addr |-> ins]
EmptyBlockNotice == [s |-> "EmptyBlockNotice"]

RECURSIVE get_last_statement(_)
\* ConditionProcessor.get_last_statement
get_last_statement(n) ==
    CASE n.kind = "Block" ->
           IF Len(n.statements) = 0 THEN EmptyBlockNotice ELSE Last(n.statements)
      [] n.kind \in {"Sequence", "MultiNode"} ->
           IF Len(n.nodes) = 0 THEN EmptyBlockNotice
           ELSE get_last_statement(Last(n.nodes))
      [] OTHER -> EmptyBlockNotice

RECURSIVE remove_last_statement(_)
\* utils.remove_last_statement
remove_last_statement(n) ==
    CASE n.kind = "Block" -> [n EXCEPT !.statements = Front(@)]
      [] n.kind \in {"Sequence", "MultiNode"} ->
           [n EXCEPT !.nodes[Len(n.nodes)] = remove_last_statement(@)]
      [] n.kind = "Code" -> [n EXCEPT !.node = remove_last_statement(@)]
      [] n.kind = "Condition" ->
           [n EXCEPT !.true_node = remove_last_statement(@),
                     !.false_node = remove_last_statement(@)]
      [] OTHER -> n

RECURSIVE LabelCollector(_)
\* LabelCollector(node).labels: the (addr, idx) of every block with a Label
LabelCollector(n) ==
    CASE n.kind = "Block" ->
           IF \E k \in 1..Len(n.statements) : n.statements[k].s = "Label"
           THEN {<<n.addr, None>>} ELSE {}
      [] n.kind \in {"Sequence", "MultiNode"} ->
           UNION {LabelCollector(n.nodes[i]) : i \in 1..Len(n.nodes)}
      [] OTHER -> {}

LastStmts(q) == [s |-> "list", stmts |-> q]

RECURSIVE get_last_statements(_)
\* ConditionProcessor.get_last_statements: the list of last statements, or
\* EmptyBlockNotice
get_last_statements(n) ==
    CASE n.kind = "Block" ->
           IF Len(n.statements) = 0 THEN EmptyBlockNotice
           ELSE LastStmts(<<Last(n.statements)>>)
      [] n.kind \in {"Sequence", "MultiNode"} ->
           IF Len(n.nodes) = 0 THEN EmptyBlockNotice
           ELSE get_last_statements(Last(n.nodes))
      [] n.kind = "Code" -> get_last_statements(n.node)
      [] n.kind = "Condition" ->
           LET t == IF n.true_node = NoNode THEN LastStmts(<<>>)
                    ELSE get_last_statements(n.true_node)
               f == IF n.false_node = NoNode THEN LastStmts(<<>>)
                    ELSE get_last_statements(n.false_node)
           IN  IF t = EmptyBlockNotice \/ f = EmptyBlockNotice THEN EmptyBlockNotice
               ELSE LastStmts(t.stmts \o f.stmts)
      [] OTHER -> EmptyBlockNotice

\* lines 879-900; the node as it is afterwards
_remove_last_statement_if_jump_to_addr(n, addr_and_ids) ==
    LET last_stmts == get_last_statements(n)
        last_stmt == IF last_stmts # EmptyBlockNotice /\ Len(last_stmts.stmts) = 1
                     THEN last_stmts.stmts[1] ELSE EmptyBlockNotice
        jump_targets ==
            IF IsJump(last_stmt) /\ IsConst(last_stmt.target)
            THEN {<<last_stmt.target.value, last_stmt.target_idx>>}
            ELSE IF IsConditionalJump(last_stmt)
            THEN (IF IsConst(last_stmt.true_target)
                  THEN {<<last_stmt.true_target.value, last_stmt.true_target_idx>>}
                  ELSE {})
                 \cup (IF IsConst(last_stmt.false_target)
                       THEN {<<last_stmt.false_target.value, last_stmt.false_target_idx>>}
                       ELSE {})
            ELSE {}
    IN  IF last_stmt # EmptyBlockNotice /\ jump_targets \cap addr_and_ids # {}
        THEN remove_last_statement(n)
        ELSE n

RECURSIVE caseid2gotoaddrs(_, _, _)
\* lines 806-818: (idx, goto_addr) in the order of cases
caseid2gotoaddrs(cases, heap, i) ==
    IF i > Len(cases) THEN <<>>
    ELSE LET last_stmt == get_last_statement(heap[cases[i].ref])
         IN  (IF /\ last_stmt # EmptyBlockNotice
                 /\ IsJump(last_stmt)
                 /\ IsConst(last_stmt.target)
              THEN <<[idx |-> cases[i].key, goto_addr |-> last_stmt.target.value]>>
              ELSE <<>>)
             \o caseid2gotoaddrs(cases, heap, i + 1)

\* lines 803-808
addr2caseids(cases, heap, a) ==
    {cases[i].key : i \in {j \in 1..Len(cases) : heap[cases[j].ref].addr = a}}

DiGraph == [nodes |-> {}, edges |-> {}]
out_degree(g, n) == Cardinality({e \in g.edges : e[1] = n})
in_degree(g, n) == Cardinality({e \in g.edges : e[2] = n})

RECURSIVE add_edges(_, _, _, _, _)
\* lines 820-834
add_edges(gotos, cases, heap, i, graph) ==
    IF i > Len(gotos) THEN graph
    ELSE LET idx == gotos[i].idx
             case_ids == addr2caseids(cases, heap, gotos[i].goto_addr)
             successor_case_id == CHOOSE k \in case_ids : TRUE
             g2 == IF Cardinality(case_ids) # 1 THEN graph
                   ELSE IF /\ out_degree(graph, idx) = 0
                           /\ in_degree(graph, successor_case_id) = 0
                   THEN [nodes |-> graph.nodes \cup {idx, successor_case_id},
                         edges |-> graph.edges \cup {<<idx, successor_case_id>>}]
                   ELSE graph
         IN  add_edges(gotos, cases, heap, i + 1, g2)

Step(E, S) == {e[2] : e \in {x \in E : x[1] \in S}}
RECURSIVE Reach(_, _, _)
Reach(E, S, k) == IF k = 0 THEN {} ELSE Step(E, S) \cup Reach(E, Step(E, S), k - 1)
\* networkx.find_cycle finds one
HasCycle(E) == \E e \in E : e[1] \in Reach(E, {e[1]}, Cardinality(E))

\* the loop of lines 841-846 without its body
no_loop_breaking(E) == {{}}

\* lines 841-846: the sets of edges the loop can take away, one edge of each
\* cycle (which one networkx.find_cycle puts first is its own matter)
break_loops(E) ==
    {R \in SUBSET E : /\ ~HasCycle(E \ R)
                      /\ \A r \in R : HasCycle((E \ R) \cup {r})}

\* new_cases[k] = v on an ordered mapping
DictSet(d, k, v) ==
    IF \E i \in 1..Len(d) : d[i].key = k
    THEN [i \in 1..Len(d) |-> IF d[i].key = k THEN [key |-> k, ref |-> v] ELSE d[i]]
    ELSE Append(d, [key |-> k, ref |-> v])

CaseRef(cases, k) == (CHOOSE i \in 1..Len(cases) : cases[i].key = k)

\* a variant that does not follow succs
chain_of_one(E, idx, fuel) == <<idx>>

RECURSIVE dfs_chain(_, _, _)
\* lines 869-873: idx and what follows it along succs
dfs_chain(E, idx, fuel) ==
    <<idx>> \o (IF fuel > 0 /\ \E e \in E : e[1] = idx /\ e[2] # idx
                THEN dfs_chain(E, (CHOOSE e \in E : e[1] = idx)[2], fuel - 1)
                ELSE <<>>)

RECURSIVE emit(_, _, _, _)
emit(cases, order, i, new_cases) ==
    IF i > Len(order) THEN new_cases
    ELSE emit(cases, order, i + 1,
              DictSet(new_cases, order[i], cases[CaseRef(cases, order[i])].ref))

RECURSIVE emit_chains(_, _, _, _, _)
\* lines 866-873
emit_chains(cases, E, starting_case_ids, i, new_cases) ==
    IF i > Len(starting_case_ids) THEN new_cases
    ELSE emit_chains(cases, E, starting_case_ids, i + 1,
                     emit(cases, dfs_chain(E, starting_case_ids[i].key, Len(cases)),
                          1, new_cases))

\* lines 836-877, once the loops are broken by taking the edges R away
reorganized(cases, heap, graph, R) ==
    LET E == graph.edges \ R
        g == [nodes |-> graph.nodes, edges |-> E]
        InGraph(c) == c.key \in g.nodes
        NotInGraph(c) == c.key \notin g.nodes
        Starts(c) == c.key \in g.nodes /\ in_degree(g, c.key) = 0
        starting_case_ids == SelectSeq(cases, Starts)
        case_label_addrs == UNION {LabelCollector(heap[cases[i].ref]) : i \in 1..Len(cases)}
        start_refs == {starting_case_ids[i].ref : i \in 1..Len(starting_case_ids)}
        new_cases == emit_chains(cases, E, starting_case_ids, 1,
                                 SelectSeq(cases, NotInGraph))
    IN  IF graph.nodes = {}
        THEN [heap |-> heap, ret |-> Returned(cases)]
        ELSE [heap |-> [r \in DOMAIN heap |->
                           IF r \in start_refs
                           THEN _remove_last_statement_if_jump_to_addr(heap[r], case_label_addrs)
                           ELSE heap[r]],
              ret |-> IF Len(new_cases) = Len(cases)
                      THEN Returned(new_cases)
                      ELSE Raised("AssertionError")]

_reorganize_switch_cases(cases, heap) ==
    LET graph == add_edges(caseid2gotoaddrs(cases, heap, 1), cases, heap, 1, DiGraph)
    IN  {reorganized(cases, heap, graph, R) : R \in break_loops(graph.edges)}

(***************************************************************************)
(* Switch cases: up to MaxCases cases with keys 1..n in mapping order.     *)
(* Each case body is a SequenceNode of one block (with a Label in all of   *)
(* them or in none) that is empty, a plain statement, a Jump to a register *)
(* or a Jump to one of the addresses 1..n.  Addresses are named in         *)
(* order of first use; several cases may share one, and a Jump may go to   *)
(* an address no case has, to its own case, in a chain or in a cycle.      *)
(***************************************************************************)
CaseTail(a, code) ==
    CASE code = -2 -> <<>>
      [] code = -1 -> <<Stmt(a)>>
      [] code = 0 -> <<Stmt(a), Jump(Register, None, a)>>
      [] OTHER -> <<Stmt(a), Jump(Const(code), None, a)>>

CaseNode(a, labelled, code) ==
    SequenceNode(a, <<Block(a, 1, (IF labelled THEN <<Label("case", a)>> ELSE <<>>)
                                  \o CaseTail(a, code))>>)

AddrNamings(n) ==
    {f \in [1..n -> 1..n] :
        /\ f[1] = 1
        /\ \A i \in 2..n : \E j \in 1..(i - 1) : f[i] <= f[j] + 1}

CaseHeaps(n) ==
    {[r \in 1..n |-> CaseNode(f[n + 1 - r], l, t[n + 1 - r])] :
        f \in AddrNamings(n), l \in BOOLEAN, t \in [1..n -> (-2)..n]}

ReorgInit ==
    /\ pc = "start"
    /\ \E n \in 1..MaxCases :
          /\ node \in CaseHeaps(n)
          /\ args = [cases |-> [i \in 1..n |-> [key |-> i, ref |-> n + 1 - i]]]
    /\ old = node
    /\ ret = Returned(NoNode)

\* self._reorganize_switch_cases(cases)
ReorgCall ==
    /\ pc = "start"
    /\ \E r \in _reorganize_switch_cases(args.cases, node) :
          /\ node' = r.heap
          /\ ret' = r.ret
    /\ old' = node
    /\ pc' = "done"
    /\ UNCHANGED args

ReorgNext == ReorgCall

SpecReorg == ReorgInit /\ [][ReorgNext]_vars

CaseKeys(d) == {d[i].key : i \in 1..Len(d)}
CaseGraph == add_edges(caseid2gotoaddrs(args.cases, old, 1), args.cases, old, 1, DiGraph)

\* C5: whatever the gotos between the cases (chains, a case that jumps to
\* itself, longer cycles, cases that share an address), _reorganize_switch_cases
\* raises nothing, its final assertion holds, and the mapping it returns has
\* the keys of the input, each once, each mapped to the node it was mapped to.
C5_SameKeysSameNodes ==
    pc = "done" =>
        /\ ~ret.raised
        /\ Len(ret.node) = Len(args.cases)
        /\ CaseKeys(ret.node) = CaseKeys(args.cases)
        /\ \A i \in 1..Len(ret.node) : \E j \in 1..Len(args.cases) :
               ret.node[i] = args.cases[j]
        /\ \A r \in DOMAIN node : node[r].kind = old[r].kind /\ node[r].addr = old[r].addr

\* three cases of which two jump to each other, so that a cycle was broken, and
\* the order of the cases has changed
C5_Witness ==
    /\ pc = "done"
    /\ Len(args.cases) = MaxCases
    /\ HasCycle(CaseGraph.edges)
    /\ \A e \in CaseGraph.edges : e[1] # e[2]
    /\ ~ret.raised
    /\ ret.node # args.cases

(***************************************************************************)
(* _switch_find_switch_end_addr (structurer_base.py 140-171).              *)
(***************************************************************************)
IntVal(v) == [e |-> "int", value |-> v]

RECURSIVE BlockSeq(_)
RECURSIVE BlockSeqOf(_, _)
\* the blocks of n in the order the walker's default handlers come to them
BlockSeq(n) ==
    CASE n.kind = "Block" -> <<n>>
      [] n.kind \in {"Sequence", "MultiNode"} -> BlockSeqOf(n.nodes, 1)
      [] n.kind = "Condition" -> BlockSeq(n.true_node) \o BlockSeq(n.false_node)
      [] n.kind = "Loop" -> BlockSeq(n.sequence_node)
      [] n.kind = "Code" -> BlockSeq(n.node)
      [] OTHER -> <<>>
BlockSeqOf(nodes, i) ==
    IF i > Len(nodes) THEN <<>> ELSE BlockSeq(nodes[i]) \o BlockSeqOf(nodes, i + 1)

RECURSIVE CaseBlocks(_, _)
\* lines 161-164: walker.walk on every case, then on default
CaseBlocks(cases, i) ==
    IF i > Len(cases) THEN <<>> ELSE BlockSeq(cases[i].node) \o CaseBlocks(cases, i + 1)

\* goto_addrs[t] += 1 on a mapping kept in insertion order
Incr(goto_addrs, t) ==
    IF \E i \in 1..Len(goto_addrs) : goto_addrs[i].addr = t
    THEN [i \in 1..Len(goto_addrs) |->
             IF goto_addrs[i].addr = t
             THEN [addr |-> t, times |-> goto_addrs[i].times + 1]
             ELSE goto_addrs[i]]
    ELSE Append(goto_addrs, [addr |-> t, times |-> 1])

\* lines 146-155
_find_gotos(block, cases, default, goto_addrs) ==
    IF Len(block.statements) > 0 /\ IsJump(Last(block.statements))
    THEN LET targets == extract_jump_targets(Last(block.statements))
         IN  IF Len(targets) = 0 THEN goto_addrs
             ELSE LET t == targets[1]
                  IN  IF \/ t \in {cases[i].key : i \in 1..Len(cases)}
                         \/ (default # NoNode /\ t = default.addr)
                      THEN goto_addrs
                      ELSE Incr(goto_addrs, t)
    ELSE goto_addrs

RECURSIVE find_all_gotos(_, _, _, _, _)
find_all_gotos(blocks, i, cases, default, goto_addrs) ==
    IF i > Len(blocks) THEN goto_addrs
    ELSE find_all_gotos(blocks, i + 1, cases, default,
                        _find_gotos(blocks[i], cases, default, goto_addrs))

\* sorted(goto_addrs.items(), key=lambda x: x[1], reverse=True)[0][0]
MostFrequentFirst(goto_addrs) ==
    goto_addrs[CHOOSE i \in 1..Len(goto_addrs) :
                  /\ \A j \in 1..Len(goto_addrs) : goto_addrs[j].times <= goto_addrs[i].times
                  /\ \A j \in 1..(i - 1) : goto_addrs[j].times < goto_addrs[i].times].addr

_switch_find_switch_end_addr(cases, default, region_node_addrs) ==
    LET blocks == CaseBlocks(cases, 1) \o (IF default # NoNode THEN BlockSeq(default) ELSE <<>>)
        goto_addrs == find_all_gotos(blocks, 1, cases, default, <<>>)
        InRegion(x) == x.addr \in region_node_addrs
        kept == IF /\ Len(goto_addrs) > 1
                   /\ \E i \in 1..Len(goto_addrs) : InRegion(goto_addrs[i])
                THEN SelectSeq(goto_addrs, InRegion)
                ELSE goto_addrs
    IN  IF Len(goto_addrs) = 0 THEN None ELSE IntVal(MostFrequentFirst(kept))

(***************************************************************************)
(* Switches for the search of the switch end: one or two cases with the    *)
(* keys 1, 2 and an optional default, each a SequenceNode of one block at  *)
(* some address that ends with a goto or does not; any set of addresses as *)
(* the addresses of the region.                                            *)
(***************************************************************************)
SwAddrs == 1..(MaxAddr + 1)
SwBody(a, t) ==
    SequenceNode(a, <<Block(a, 1, IF t = 0 THEN <<Stmt(a)>>
                                  ELSE <<Stmt(a), Jump(Const(t), None, a)>>)>>)
SwBodies == {SwBody(a, t) : a \in SwAddrs, t \in {0} \cup SwAddrs}
SwCases ==
    UNION {{[i \in 1..n |-> [key |-> i, node |-> f[i]]] : f \in [1..n -> SwBodies]} :
              n \in 1..2}

EndInit ==
    /\ pc = "start"
    /\ args \in {[cases |-> c, default |-> d, region_node_addrs |-> r] :
                    c \in SwCases, d \in {NoNode} \cup SwBodies, r \in SUBSET SwAddrs}
    /\ node = NoNode
    /\ old = NoNode
    /\ ret = Returned(NoNode)

\* self._switch_find_switch_end_addr(cases, default, region_node_addrs)
EndCall ==
    /\ pc = "start"
    /\ ret' = Returned(_switch_find_switch_end_addr(args.cases, args.default,
                                                    args.region_node_addrs))
    /\ pc' = "done"
    /\ UNCHANGED <<node, old, args>>

EndNext == EndCall

SpecEnd == EndInit /\ [][EndNext]_vars

\* the entry addresses of the cases and of the default
SwEntries ==
    {args.cases[i].node.addr : i \in 1..Len(args.cases)}
    \cup (IF args.default # NoNode THEN {args.default.addr} ELSE {})
SwAllBlocks ==
    CaseBlocks(args.cases, 1)
    \o (IF args.default # NoNode THEN BlockSeq(args.default) ELSE <<>>)
\* how many blocks of the case and default bodies end in a goto to a
GotoCount(a) ==
    Cardinality({i \in 1..Len(SwAllBlocks) :
                    /\ EndsWithJumpStmt(SwAllBlocks[i])
                    /\ IsJump(Last(SwAllBlocks[i].statements))
                    /\ a \in Range(extract_jump_targets(Last(SwAllBlocks[i].statements)))})

\* C6: _switch_find_switch_end_addr returns None when no block of a case or
\* default body ends in a goto to an address that is no case or default entry;
\* otherwise it returns the most frequent such goto target, and being in
\* region_node_addrs only decides between equally frequent targets.
C6_MostFrequentOutsideGoto ==
    pc = "done" =>
        LET cand == {a \in SwAddrs : GotoCount(a) > 0 /\ a \notin SwEntries}
            top == {a \in cand : \A b \in cand : GotoCount(b) <= GotoCount(a)}
        IN  IF cand = {} THEN ret.node = None
            ELSE /\ ret.node \in {IntVal(a) : a \in top}
                 /\ (top \cap args.region_node_addrs # {} =>
                        ret.node.value \in args.region_node_addrs)

(***************************************************************************)
(* _switch_handle_gotos (structurer_base.py 173-248).  node holds the      *)
(* cases and the default, which the function changes in place.             *)
(***************************************************************************)
\* a variant that appends nothing
no_transition_added(case_node, switch_end_addr) == case_node

\* lines 185-204, for one case
ensure_transition(case_node, switch_end_addr) ==
    IF /\ case_node.kind = "Sequence"
       /\ Len(case_node.nodes) > 0
       /\ Last(case_node.nodes).kind = "Condition"
    THEN LET cond_node == Last(case_node.nodes)
         IN  IF (cond_node.true_node = NoNode) # (cond_node.false_node = NoNode)
             THEN [case_node EXCEPT !.nodes =
                      Append(@, Block(cond_node.addr, 0,
                                      <<Jump(Const(switch_end_addr), None, cond_node.addr)>>))]
             ELSE case_node
    ELSE case_node

GoesOnlyTo(blk, addr) ==
    /\ Len(blk.statements) > 0
    /\ IsJump(Last(blk.statements))
    /\ extract_jump_targets(Last(blk.statements)) = <<addr>>

\* lines 208-219 for a block that has a parent: the nodes that stand in the
\* parent where the block stood
_rewrite_gotos(block, switch_end_addr) ==
    IF GoesOnlyTo(block, switch_end_addr)
    THEN <<[block EXCEPT !.statements = Front(@)],
           BreakNode(Last(block.statements).ins_addr, switch_end_addr)>>
    ELSE <<block>>

RECURSIVE shg_walk(_, _)
RECURSIVE shg_children(_, _, _)
shg_children(nodes, i, switch_end_addr) ==
    IF i > Len(nodes) THEN <<>>
    ELSE (IF IsBlock(nodes[i])
          THEN _rewrite_gotos(nodes[i], switch_end_addr)
          ELSE <<shg_walk(nodes[i], switch_end_addr)>>)
         \o shg_children(nodes, i + 1, switch_end_addr)

shg_slot(child, switch_end_addr) ==
    IF IsBlock(child)
    THEN WrapInserted(child, _rewrite_gotos(child, switch_end_addr))
    ELSE shg_walk(child, switch_end_addr)

\* lines 237-248: walker.walk on a case or on the default; a Block met here has
\* no parent (line 209), LoopNodes are entered (line 227)
shg_walk(n, switch_end_addr) ==
    CASE n.kind \in {"Sequence", "MultiNode"} ->
           [n EXCEPT !.nodes = shg_children(@, 1, switch_end_addr)]
      [] n.kind = "Condition" ->
           [n EXCEPT !.true_node = shg_slot(@, switch_end_addr),
                     !.false_node = shg_slot(@, switch_end_addr)]
      [] n.kind = "Loop" ->
           [n EXCEPT !.sequence_node = shg_walk(@, switch_end_addr)]
      [] OTHER -> n

_switch_handle_gotos(cases, default, switch_end_addr) ==
    [cases |-> [i \in 1..Len(cases) |->
                   [key |-> cases[i].key,
                    node |-> shg_walk(ensure_transition(cases[i].node, switch_end_addr),
                                      switch_end_addr)]],
     default |-> IF default # NoNode THEN shg_walk(default, switch_end_addr) ELSE default]

(***************************************************************************)
(* Switches for the goto pass: a first case that holds one block in each   *)
(* kind of place (alone, in a Sequence, a MultiNode, a one-sided or        *)
(* two-sided ConditionNode, a loop), a second plain case or none, and a    *)
(* default that is absent, a block, or a Sequence of a block.              *)
(***************************************************************************)
GotoStmts(a) ==
    {Jump(Const(t), None, a) : t \in Addrs}
    \cup {ConditionalJump(Cond(1), Const(tt), ft, None, None, a) :
              tt \in Addrs, ft \in Targets}
GotoBlocks(a) ==
    {Block(a, 1, <<>>), Plain(a)}
    \cup {Block(a, 1, <<st>>) : st \in GotoStmts(a)}
    \cup {Block(a, 1, <<Stmt(a), st>>) : st \in GotoStmts(a)}
GotoCaseBodies ==
    UNION {
      { b,
        SequenceNode(1, <<b>>),
        SequenceNode(1, <<b, Plain(2)>>),
        SequenceNode(1, <<MultiNode(1, <<Plain(1), b>>)>>),
        SequenceNode(1, <<Plain(1), ConditionNode(1, BoolS(2), b, NoNode)>>),
        SequenceNode(1, <<Plain(1), ConditionNode(2, BoolS(2), NoNode, b)>>),
        SequenceNode(1, <<ConditionNode(1, BoolS(2), Plain(2), b), Plain(2)>>),
        SequenceNode(1, <<LoopNode("while", None, SequenceNode(1, <<b>>), 1)>>) } :
      b \in GotoBlocks(1) }
GotoDefaults ==
    {NoNode}
    \cup UNION {{b, SequenceNode(2, <<b>>)} :
                   b \in {Block(2, 1, <<Jump(Const(t), None, 2)>>) : t \in Addrs}}

ShgInit ==
    /\ pc = "start"
    /\ \E c \in GotoCaseBodies, m \in 1..2, d \in GotoDefaults :
          node = [cases |-> [i \in 1..m |->
                                [key |-> i,
                                 node |-> IF i = 1 THEN c
                                          ELSE SequenceNode(2, <<Plain(2)>>)]],
                  default |-> d]
    /\ old = node
    /\ args \in {[switch_end_addr |-> a] : a \in Addrs}
    /\ ret = Returned(NoNode)

\* self._switch_handle_gotos(cases, default, switch_end_addr)
ShgCall ==
    /\ pc = "start"
    /\ old' = node
    /\ node' = _switch_handle_gotos(node.cases, node.default, args.switch_end_addr)
    /\ pc' = "done"
    /\ UNCHANGED <<args, ret>>

ShgNext == ShgCall

SpecShg == ShgInit /\ [][ShgNext]_vars

RECURSIVE DeepCount(_, _)
\* how many nodes of n, at any depth, have a kind in kinds
DeepCount(n, kinds) ==
    (IF n.kind \in kinds THEN 1 ELSE 0)
    + CASE n.kind \in {"Sequence", "MultiNode"} ->
             SumSeq([i \in 1..Len(n.nodes) |-> DeepCount(n.nodes[i], kinds)])
        [] n.kind = "Condition" ->
             DeepCount(n.true_node, kinds) + DeepCount(n.false_node, kinds)
        [] n.kind = "Loop" -> DeepCount(n.sequence_node, kinds)
        [] n.kind = "Code" -> DeepCount(n.node, kinds)
        [] OTHER -> 0

\* the blocks of all case bodies and of the default body of a switch
SwitchBlocks(sw) ==
    CaseBlocks(sw.cases, 1)
    \o (IF sw.default # NoNode THEN BlockSeq(sw.default) ELSE <<>>)
SwitchBreaks(sw) ==
    SumSeq([i \in 1..Len(sw.cases) |-> DeepCount(sw.cases[i].node, {"Break"})])
    + DeepCount(sw.default, {"Break"})

\* C7: after _switch_handle_gotos(cases, default, switch_end_addr), no Block
\* of a case body or of the default body ends with an unconditional Jump whose
\* single target is switch_end_addr; each one that did has lost the jump and
\* got a BreakNode.
C7_NoGotoToSwitchEnd ==
    pc = "done" =>
        /\ \A i \in 1..Len(SwitchBlocks(node)) :
               ~GoesOnlyTo(SwitchBlocks(node)[i], args.switch_end_addr)
        /\ SwitchBreaks(node) >=
               Cardinality({i \in 1..Len(SwitchBlocks(old)) :
                               GoesOnlyTo(SwitchBlocks(old)[i], args.switch_end_addr)})

(***************************************************************************)
(* ConditionProcessor.simplify_condition, from its contract: pure,         *)
(* idempotent, folds double negation, applies De Morgan and absorption.    *)
(***************************************************************************)
Absorbs(op, t, x) == t.e = op /\ x \in Range(t.args)

RECURSIVE simplify_condition(_)
simplify_condition(c) ==
    CASE c.e = "claripy.Not" ->
           LET x == simplify_condition(c.operand)
           IN  CASE x.e = "claripy.Not" -> x.operand
                 [] x.e = "claripy.And" ->
                      simplify_condition(claripy_Or(claripy_Not(x.args[1]),
                                                    claripy_Not(x.args[2])))
                 [] x.e = "claripy.Or" ->
                      simplify_condition(claripy_And(claripy_Not(x.args[1]),
                                                     claripy_Not(x.args[2])))
                 [] OTHER -> claripy_Not(x)
      [] c.e \in {"claripy.Or", "claripy.And"} ->
           LET x == simplify_condition(c.args[1])
               y == simplify_condition(c.args[2])
               dual == IF c.e = "claripy.Or" THEN "claripy.And" ELSE "claripy.Or"
           IN  IF x = y THEN x
               ELSE IF Absorbs(dual, y, x) THEN x
               ELSE IF Absorbs(dual, x, y) THEN y
               ELSE [e |-> c.e, args |-> <<x, y>>]
      [] OTHER -> c

(***************************************************************************)
(* _merge_conditional_breaks (structurer_base.py 661-711).                 *)
(***************************************************************************)
Unpack(n) == IF n.kind = "Code" THEN n.node ELSE n
Walked(n, merged) == [node |-> n, merged |-> merged]

RECURSIVE mcb_handle(_)
RECURSIVE mcb_scan(_, _, _, _)
\* lines 675-700: the loop over seq_node.nodes from index i on
mcb_scan(nodes, i, new_nodes, merged) ==
    IF i > Len(nodes) THEN Walked(new_nodes, merged)
    ELSE LET old_node == nodes[i]
             n == Unpack(old_node)
         IN  IF n.kind = "ConditionalBreak" /\ Len(new_nodes) > 0
             THEN LET prev_node == Unpack(Last(new_nodes))
                  IN  IF prev_node.kind = "ConditionalBreak"
                      THEN mcb_scan(nodes, i + 1,
                                    Append(Front(new_nodes),
                                           ConditionalBreakNode(
                                               n.addr,
                                               simplify_condition(
                                                   claripy_Or(n.condition,
                                                              prev_node.condition)),
                                               n.target)),
                                    TRUE)
                      ELSE mcb_scan(nodes, i + 1, Append(new_nodes, old_node), merged)
             ELSE LET w == mcb_handle(n)
                  IN  mcb_scan(nodes, i + 1,
                               Append(new_nodes,
                                      IF old_node.kind = "Code"
                                      THEN [old_node EXCEPT !.node = w.node]
                                      ELSE w.node),
                               merged \/ w.merged)

\* walker._handle: _handle_SequenceNode for a SequenceNode, the walker's own
\* handlers for the rest
mcb_handle(n) ==
    CASE n.kind = "Sequence" ->
           LET w == mcb_scan(n.nodes, 1, <<>>, FALSE)
           IN  Walked([n EXCEPT !.nodes = w.node], w.merged)
      [] n.kind = "Condition" ->
           LET t == mcb_handle(n.true_node)
               f == mcb_handle(n.false_node)
           IN  Walked([n EXCEPT !.true_node = t.node, !.false_node = f.node],
                      t.merged \/ f.merged)
      [] n.kind = "Loop" ->
           LET w == mcb_handle(n.sequence_node)
           IN  Walked([n EXCEPT !.sequence_node = w.node], w.merged)
      [] n.kind = "Code" ->
           LET w == mcb_handle(n.node)
           IN  Walked([n EXCEPT !.node = w.node], w.merged)
      [] OTHER -> Walked(n, FALSE)

_merge_conditional_breaks(seq) == mcb_handle(seq)

(***************************************************************************)
(* Sequences for the merge of conditional breaks: up to MaxLen siblings,   *)
(* each a ConditionalBreakNode with one of two conditions and any target,  *)
(* bare or in a CodeNode, or a plain block; and two conditional breaks     *)
(* inside a ConditionNode, a loop body and a CodeNode.                     *)
(***************************************************************************)
CondBreaks == {ConditionalBreakNode(1, BoolS(c), t) : c \in 1..2, t \in Addrs}
McbItems ==
    CondBreaks
    \cup {CodeNode(ConditionalBreakNode(2, BoolS(2), t)) : t \in Addrs}
    \cup {Plain(1)}
McbInputs ==
    {SequenceNode(1, l) : l \in UNION {[1..n -> McbItems] : n \in 1..MaxLen}}
    \cup UNION {
      { SequenceNode(1, <<ConditionNode(1, BoolS(1), SequenceNode(1, <<a, b>>), NoNode)>>),
        SequenceNode(1, <<LoopNode("while", None, SequenceNode(1, <<a, b>>), 1), a>>),
        SequenceNode(1, <<a, CodeNode(SequenceNode(1, <<a, b>>))>>) } :
      a \in CondBreaks, b \in CondBreaks }

McbInit ==
    /\ pc = "start"
    /\ node \in McbInputs
    /\ old = node
    /\ args = [seq |-> node]
    /\ ret = Returned(NoNode)

\* merged, seq = self._merge_conditional_breaks(seq)
McbCall ==
    /\ pc = "start"
    /\ old' = node
    /\ node' = _merge_conditional_breaks(node).node
    /\ ret' = [raised |-> FALSE, node |-> _merge_conditional_breaks(node).node,
               merged |-> _merge_conditional_breaks(node).merged]
    /\ pc' = "done"
    /\ UNCHANGED args

McbNext == McbCall

SpecMcb == McbInit /\ [][McbNext]_vars

RECURSIVE RunsMerged(_)
RECURSIVE RunsMergedIn(_, _, _)
\* what the claim describes: in every SequenceNode, adjacent ConditionalBreakNodes
\* with one and the same target become one with that target
RunsMergedIn(nodes, i, new_nodes) ==
    IF i > Len(nodes) THEN new_nodes
    ELSE LET n == Unpack(nodes[i])
             prev_node == Unpack(Last(new_nodes))
         IN  IF /\ n.kind = "ConditionalBreak"
                /\ Len(new_nodes) > 0
                /\ prev_node.kind = "ConditionalBreak"
                /\ prev_node.target = n.target
             THEN RunsMergedIn(nodes, i + 1,
                      Append(Front(new_nodes),
                             ConditionalBreakNode(
                                 n.addr,
                                 simplify_condition(claripy_Or(n.condition,
                                                               prev_node.condition)),
                                 n.target)))
             ELSE RunsMergedIn(nodes, i + 1, Append(new_nodes, RunsMerged(nodes[i])))
RunsMerged(n) ==
    CASE n.kind = "Sequence" -> [n EXCEPT !.nodes = RunsMergedIn(@, 1, <<>>)]
      [] n.kind = "Condition" ->
           [n EXCEPT !.true_node = RunsMerged(@), !.false_node = RunsMerged(@)]
      [] n.kind = "Loop" -> [n EXCEPT !.sequence_node = RunsMerged(@)]
      [] n.kind = "Code" -> [n EXCEPT !.node = RunsMerged(@)]
      [] OTHER -> n

\* C8: _merge_conditional_breaks replaces, in every SequenceNode, each run of
\* adjacent ConditionalBreakNodes with target E by one ConditionalBreakNode
\* with the simplified Or of their conditions and target E, keeps the other
\* siblings in their order, and returns True exactly when it merged something.
C8_RunsOfOneTargetMerged ==
    pc = "done" =>
        /\ node = RunsMerged(old)
        /\ ret.merged = (RunsMerged(old) # old)

(***************************************************************************)
(* _merge_nesting_conditionals (structurer_base.py 713-795).               *)
(***************************************************************************)
Found(n) == [r |-> TRUE, node |-> n]
NotFound == [r |-> FALSE, node |-> NoNode]

\* the same test without `node.false_node is None`
condnode_with_truenode(n) ==
    IF Unpack(n).kind = "Condition" /\ Unpack(n).true_node # NoNode
    THEN Found(Unpack(n)) ELSE NotFound

\* lines 723-729
_condnode_truenode_only(n) ==
    IF /\ Unpack(n).kind = "Condition"
       /\ Unpack(n).true_node # NoNode
       /\ Unpack(n).false_node = NoNode
    THEN Found(Unpack(n)) ELSE NotFound

RECURSIVE _condbreaknode(_)
\* lines 731-742
_condbreaknode(n) ==
    LET u == Unpack(n)
    IN  IF u.kind = "Sequence"
        THEN IF Len(u.nodes) # 1 THEN NotFound ELSE _condbreaknode(u.nodes[1])
        ELSE IF u.kind = "ConditionalBreak" THEN Found(u) ELSE NotFound

MergedCond(a, b) ==
    simplify_condition(claripy_And(claripy_ast_from_ail_condition(a),
                                   claripy_ast_from_ail_condition(b)))

RECURSIVE mnc_handle(_)
RECURSIVE mnc_scan(_, _, _)
\* a variant that sets the flag as soon as it meets a one-sided ConditionNode,
\* merged or not
mnc_item_flagging(n) ==
    LET outer == _condnode_truenode_only(n)
        inner == _condnode_truenode_only(outer.node.true_node)
        condbreak == _condbreaknode(outer.node.true_node)
    IN  IF outer.r /\ inner.r
        THEN Walked(ConditionNode(outer.node.addr,
                                  MergedCond(outer.node.condition, inner.node.condition),
                                  inner.node.true_node, NoNode),
                    TRUE)
        ELSE IF outer.r /\ condbreak.r
        THEN Walked(ConditionalBreakNode(condbreak.node.addr,
                                         MergedCond(outer.node.condition,
                                                    condbreak.node.condition),
                                         condbreak.node.target),
                    TRUE)
        ELSE Walked(mnc_handle(n).node, outer.r \/ mnc_handle(n).merged)

\* lines 746-785, for seq_node.nodes[i]
mnc_item(n) ==
    LET outer == _condnode_truenode_only(n)
        inner == _condnode_truenode_only(outer.node.true_node)
        condbreak == _condbreaknode(outer.node.true_node)
    IN  IF outer.r /\ inner.r
        THEN Walked(ConditionNode(outer.node.addr,
                                  MergedCond(outer.node.condition, inner.node.condition),
                                  inner.node.true_node, NoNode),
                    TRUE)
        ELSE IF outer.r /\ condbreak.r
        THEN Walked(ConditionalBreakNode(condbreak.node.addr,
                                         MergedCond(outer.node.condition,
                                                    condbreak.node.condition),
                                         condbreak.node.target),
                    TRUE)
        ELSE mnc_handle(n)

mnc_scan(nodes, i, merged) ==
    IF i > Len(nodes) THEN Walked(nodes, merged)
    ELSE LET w == mnc_item(nodes[i])
         IN  mnc_scan([nodes EXCEPT ![i] = w.node], i + 1, merged \/ w.merged)

\* walker._handle: _handle_SequenceNode for a SequenceNode, the walker's own
\* handlers for the rest
mnc_handle(n) ==
    CASE n.kind = "Sequence" ->
           LET w == mnc_scan(n.nodes, 1, FALSE)
           IN  Walked([n EXCEPT !.nodes = w.node], w.merged)
      [] n.kind = "Condition" ->
           LET t == mnc_handle(n.true_node)
               f == mnc_handle(n.false_node)
           IN  Walked([n EXCEPT !.true_node = t.node, !.false_node = f.node],
                      t.merged \/ f.merged)
      [] n.kind = "Loop" ->
           LET w == mnc_handle(n.sequence_node)
           IN  Walked([n EXCEPT !.sequence_node = w.node], w.merged)
      [] n.kind = "Code" ->
           LET w == mnc_handle(n.node)
           IN  Walked([n EXCEPT !.node = w.node], w.merged)
      [] OTHER -> Walked(n, FALSE)

_merge_nesting_conditionals(seq) == mnc_handle(seq)

(***************************************************************************)
(* Sequences for the merge of nested conditions: ConditionNodes nested up  *)
(* to MaxDepth deep, each level with or without a false branch, bare or in *)
(* a CodeNode, around a block, a Sequence or a conditional break; alone in *)
(* the Sequence or followed by one more ConditionNode.                     *)
(***************************************************************************)
MaxDepth == 3

Bodies ==
    {Plain(1), SequenceNode(1, <<Plain(1)>>),
     ConditionalBreakNode(1, BoolS(MaxDepth + 1), 1),
     SequenceNode(1, <<ConditionalBreakNode(1, BoolS(MaxDepth + 1), 1)>>),
     SequenceNode(1, <<ConditionNode(1, BoolS(1),
                                     ConditionNode(1, BoolS(2), Plain(1), NoNode),
                                     NoNode)>>)}
RECURSIVE Nested(_)
\* the ConditionNodes exactly d deep; the one at depth k has condition BoolS(k)
Nested(d) ==
    IF d = 1
    THEN {ConditionNode(1, BoolS(1), s, f) : s \in Bodies, f \in {NoNode, Plain(2)}}
    ELSE {ConditionNode(1, BoolS(d), t, f) :
             t \in Nested(d - 1) \cup {CodeNode(x) : x \in Nested(d - 1)},
             f \in {NoNode, Plain(2)}}
NestedItems == UNION {Nested(d) : d \in 1..MaxDepth}
MncInputs ==
    {SequenceNode(1, <<x>>) : x \in NestedItems}
    \cup {SequenceNode(1, <<CodeNode(x), y>>) : x \in Nested(2), y \in Nested(1)}

MncInit ==
    /\ pc = "start"
    /\ node \in MncInputs
    /\ old = node
    /\ args = [seq |-> node]
    /\ ret = Returned(NoNode)

\* merged, seq = self._merge_nesting_conditionals(seq)
MncCall ==
    /\ pc = "start"
    /\ old' = node
    /\ node' = _merge_nesting_conditionals(node).node
    /\ ret' = [raised |-> FALSE, node |-> _merge_nesting_conditionals(node).node,
               merged |-> _merge_nesting_conditionals(node).merged]
    /\ pc' = "done"
    /\ UNCHANGED args

MncNext == MncCall

SpecMnc == MncInit /\ [][MncNext]_vars

IsCond(n) == Unpack(n).kind = "Condition"
OneSided(n) == IsCond(n) /\ Unpack(n).true_node # NoNode /\ Unpack(n).false_node = NoNode
\* a ConditionNode whose true branch is a ConditionNode
CondInCond(n) == IsCond(n) /\ IsCond(Unpack(n).true_node)
InnerOf(n) == Unpack(Unpack(n).true_node)

\* C9: a child of the SequenceNode that is a ConditionNode with condition A and
\* no false branch, around a ConditionNode with condition B, true node S and no
\* false branch, is replaced by ConditionNode(simplify(And(A, B)), S) without a
\* false branch; where the outer or the inner ConditionNode has a false branch,
\* the two are still two ConditionNodes with their conditions A and B.
C9_NestedConditionsMerged ==
    pc = "done" =>
        /\ Len(node.nodes) = Len(old.nodes)
        /\ \A i \in 1..Len(old.nodes) :
              LET o == old.nodes[i]
                  n == node.nodes[i]
              IN  /\ (CondInCond(o) /\ OneSided(o) /\ OneSided(InnerOf(o))) =>
                         /\ n = ConditionNode(Unpack(o).addr,
                                              simplify_condition(
                                                  claripy_And(Unpack(o).condition,
                                                              InnerOf(o).condition)),
                                              InnerOf(o).true_node, NoNode)
                         /\ ret.merged
                  /\ (CondInCond(o) /\ ~(OneSided(o) /\ OneSided(InnerOf(o)))) =>
                         /\ CondInCond(n)
                         /\ Unpack(n).condition = Unpack(o).condition
                         /\ InnerOf(n).condition = InnerOf(o).condition
                         /\ (Unpack(n).false_node = NoNode) = (Unpack(o).false_node = NoNode)
                         /\ (InnerOf(n).false_node = NoNode) = (InnerOf(o).false_node = NoNode)

\* one child was merged, and next to it one with a false branch was left
C9_Witness ==
    /\ pc = "done"
    /\ Len(old.nodes) = 2
    /\ CondInCond(old.nodes[1]) /\ OneSided(old.nodes[1]) /\ OneSided(InnerOf(old.nodes[1]))
    /\ ~CondInCond(node.nodes[1])
    /\ ret.merged
    /\ Unpack(old.nodes[2]).false_node # NoNode
    /\ node.nodes[2] = old.nodes[2]

(***************************************************************************)
(* replace_node_in_node (structurer_base.py 1071-1095).  The children of   *)
(* the parent are references, compared with `is`.                          *)
(***************************************************************************)
MaxRefs == 3

Ref(r) == [kind |-> "Ref", id |-> r, addr |-> r]
CascadingConditionNode(addr, condition_and_nodes) ==
    [kind |-> "CascadingCondition", addr |-> addr,
     condition_and_nodes |-> condition_and_nodes]
SwitchCaseNode(addr, cases, default) ==
    [kind |-> "SwitchCase", addr |-> addr, cases |-> cases, default |-> default]

\* the first of the indices in S, 0 if there is none
FirstIndex(S) ==
    IF S = {} THEN 0 ELSE CHOOSE i \in S : \A j \in S : i <= j

\* the same function with MultiNode taken for a SequenceNode
replace_node_in_any_list(parent_node, old_node, new_node) ==
    LET i == FirstIndex({k \in 1..Len(parent_node.nodes) :
                            parent_node.nodes[k] = old_node})
    IN  IF parent_node.kind \in {"Sequence", "MultiNode"}
        THEN [parent |-> IF i = 0 THEN parent_node
                         ELSE [parent_node EXCEPT !.nodes[i] = new_node],
              ret |-> Returned(NoNode)]
        ELSE [parent |-> parent_node, ret |-> Raised("TypeError")]

\* a variant that replaces old_node in every slot that holds it
replace_node_in_every_slot(parent_node, old_node, new_node) ==
    CASE parent_node.kind = "Sequence" ->
           [parent |-> [parent_node EXCEPT !.nodes =
                           [k \in 1..Len(@) |-> IF @[k] = old_node THEN new_node ELSE @[k]]],
            ret |-> Returned(NoNode)]
      [] parent_node.kind = "Condition" ->
           [parent |-> [parent_node EXCEPT
                           !.true_node = IF @ = old_node THEN new_node ELSE @,
                           !.false_node = IF @ = old_node THEN new_node ELSE @],
            ret |-> Returned(NoNode)]
      [] parent_node.kind = "CascadingCondition" ->
           [parent |-> [parent_node EXCEPT !.condition_and_nodes =
                           [k \in 1..Len(@) |->
                               IF @[k][2] = old_node THEN <<@[k][1], new_node>> ELSE @[k]]],
            ret |-> Returned(NoNode)]
      [] OTHER -> [parent |-> parent_node, ret |-> Raised("TypeError")]

\* lines 1071-1095: the parent as it is afterwards, and what the call gives
replace_node_in_node(parent_node, old_node, new_node) ==
    CASE parent_node.kind = "Sequence" ->
           LET i == FirstIndex({k \in 1..Len(parent_node.nodes) :
                                   parent_node.nodes[k] = old_node})
           IN  [parent |-> IF i = 0 THEN parent_node
                           ELSE [parent_node EXCEPT !.nodes[i] = new_node],
                ret |-> Returned(NoNode)]
      [] parent_node.kind = "Condition" ->
           [parent |-> IF parent_node.true_node = old_node
                       THEN [parent_node EXCEPT !.true_node = new_node]
                       ELSE IF parent_node.false_node = old_node
                       THEN [parent_node EXCEPT !.false_node = new_node]
                       ELSE parent_node,
            ret |-> Returned(NoNode)]
      [] parent_node.kind = "CascadingCondition" ->
           LET i == FirstIndex({k \in 1..Len(parent_node.condition_and_nodes) :
                                   parent_node.condition_and_nodes[k][2] = old_node})
           IN  [parent |-> IF i = 0 THEN parent_node
                           ELSE [parent_node EXCEPT
                                    !.condition_and_nodes[i] = <<@[1], new_node>>],
                ret |-> Returned(NoNode)]
      [] OTHER -> [parent |-> parent_node, ret |-> Raised("TypeError")]

(***************************************************************************)
(* Parents of every kind with up to MaxRefs different children.            *)
(***************************************************************************)
Refs == {Ref(r) : r \in 1..MaxRefs}
RefLists == UNION {[1..n -> Refs] : n \in 0..MaxLen}
Parents ==
    {SequenceNode(1, l) : l \in RefLists}
    \cup {MultiNode(1, l) : l \in RefLists}
    \cup {ConditionNode(1, BoolS(1), t, f) : t \in Refs, f \in Refs \cup {NoNode}}
    \cup {CascadingConditionNode(1, <<<<BoolS(1), a>>, <<BoolS(2), b>>>>) :
             a \in Refs, b \in Refs}
    \cup {LoopNode("while", None, r, 1) : r \in Refs}
    \cup {SwitchCaseNode(1, <<[key |-> 1, node |-> a]>>, d) :
             a \in Refs, d \in Refs \cup {NoNode}}
    \cup {CodeNode(r) : r \in Refs}

RplInit ==
    /\ pc = "start"
    /\ node \in Parents
    /\ old = node
    /\ args \in {[old_node |-> o, new_node |-> n] : o \in Refs, n \in Refs}
    /\ ret = Returned(NoNode)

\* self.replace_node_in_node(parent_node, old_node, new_node)
RplCall ==
    /\ pc = "start"
    /\ old' = node
    /\ node' = replace_node_in_node(node, args.old_node, args.new_node).parent
    /\ ret' = replace_node_in_node(node, args.old_node, args.new_node).ret
    /\ pc' = "done"
    /\ UNCHANGED args

RplNext == RplCall

SpecRpl == RplInit /\ [][RplNext]_vars

\* C10: with a parent that is no SequenceNode, ConditionNode or
\* CascadingConditionNode, replace_node_in_node raises TypeError and the parent
\* is as it was; with one of these three it raises nothing.
C10_TypeErrorOnOtherParents ==
    pc = "done" =>
        IF old.kind \in {"Sequence", "Condition", "CascadingCondition"}
        THEN ~ret.raised
        ELSE ret.raised /\ ret.error = "TypeError" /\ node = old

\* a MultiNode parent that holds old_node
C10_Witness ==
    /\ pc = "done"
    /\ old.kind = "MultiNode"
    /\ \E i \in 1..Len(old.nodes) : old.nodes[i] = args.old_node
    /\ args.new_node # args.old_node
    /\ ret.raised

(***************************************************************************)
(* EmptyBlockNotice in the last-statement helpers (lines 879-960, 806-818) *)
(***************************************************************************)

IncompleteSwitchCaseHeadStatement(ins) ==
    [s |-> "IncompleteSwitchCaseHeadStatement", ins_addr |-> ins]

\* a variant of the tail in which the notice of the query escapes
remove_if_last_is_propagating(n, kinds) ==
    LET last_stmts == get_last_statements(n)
    IN  IF last_stmts = EmptyBlockNotice
        THEN [node |-> remove_last_statement(n), ret |-> Raised("EmptyBlockNotice")]
        ELSE IF Len(last_stmts.stmts) = 1 /\ last_stmts.stmts[1].s \in kinds
        THEN [node |-> remove_last_statement(n), ret |-> Returned(last_stmts.stmts[1])]
        ELSE [node |-> n, ret |-> Returned(None)]

\* lines 922-929 and 953-960: the query, the except clause, the removal
remove_if_last_is(n, kinds) ==
    LET last_stmts == get_last_statements(n)
    IN  IF last_stmts = EmptyBlockNotice
        THEN [node |-> n, ret |-> Returned(None)]
        ELSE IF Len(last_stmts.stmts) = 1 /\ last_stmts.stmts[1].s \in kinds
        THEN [node |-> remove_last_statement(n), ret |-> Returned(last_stmts.stmts[1])]
        ELSE [node |-> n, ret |-> Returned(None)]

EndsInJump(block) ==
    /\ block.kind = "Block"
    /\ Len(block.statements) > 0
    /\ IsJump(Last(block.statements))

\* lines 906-916 and 936-946: the first of true_node, false_node that is a
\* Block ending in a Jump gives the_stmt
the_stmt(n) ==
    IF n.kind = "Sequence" /\ Len(n.nodes) > 0 /\ Last(n.nodes).kind = "Condition"
    THEN LET cond_node == Last(n.nodes)
         IN  IF EndsInJump(cond_node.true_node)
             THEN Last(cond_node.true_node.statements)
             ELSE IF EndsInJump(cond_node.false_node)
             THEN Last(cond_node.false_node.statements)
             ELSE None
    ELSE None

\* lines 903-929
_remove_last_statement_if_jump(n) ==
    IF the_stmt(n) # None
    THEN [node |-> [n EXCEPT !.nodes = Front(@)], ret |-> Returned(the_stmt(n))]
    ELSE remove_if_last_is(n, {"Jump", "ConditionalJump"})

\* lines 932-960
_remove_last_statement_if_jump_or_schead(n) ==
    IF the_stmt(n) # None
    THEN [node |-> [n EXCEPT !.nodes = Front(@)], ret |-> Returned(the_stmt(n))]
    ELSE remove_if_last_is(n, {"Jump", "ConditionalJump",
                               "IncompleteSwitchCaseHeadStatement"})

\* lines 879-900: the value returned
jump_to_addr_returns(n, addr_and_ids) ==
    IF _remove_last_statement_if_jump_to_addr(n, addr_and_ids) = n
    THEN Returned(None)
    ELSE Returned(get_last_statements(n).stmts[1])

EbnBlocks(a) ==
    {Block(a, 1, q) : q \in {<<>>, <<Stmt(a)>>, <<Stmt(a), Jump(Const(1), None, a)>>,
                             <<ConditionalJump(Cond(a), Const(1), Const(2), None, None, a)>>,
                             <<IncompleteSwitchCaseHeadStatement(a)>>}}

EbnNodes ==
    LET B == EbnBlocks(2)
    IN  B \cup {SequenceNode(1, <<>>), MultiNode(1, <<>>)}
          \cup {SequenceNode(1, <<b>>) : b \in B}
          \cup {SequenceNode(1, <<Plain(1), b>>) : b \in B}
          \cup {MultiNode(1, <<Plain(1), b>>) : b \in B}
          \cup {CodeNode(b) : b \in B}
          \cup {SequenceNode(1, <<Plain(1), ConditionNode(2, Cond(2), t, f)>>) :
                   t \in B \cup {NoNode}, f \in B \cup {NoNode}}

EbnInit ==
    \/ /\ pc = "start"
       /\ node \in EbnNodes
       /\ args \in {[addr_and_ids |-> S] : S \in SUBSET {<<1, None>>}}
       /\ old = node
       /\ ret = Returned(None)
    \/ ReorgInit

\* self._remove_last_statement_if_jump(node)
EbnJump ==
    /\ pc = "start" /\ "addr_and_ids" \in DOMAIN args
    /\ node' = _remove_last_statement_if_jump(node).node
    /\ ret' = _remove_last_statement_if_jump(node).ret
    /\ old' = node
    /\ pc' = "jump"
    /\ UNCHANGED args

\* self._remove_last_statement_if_jump_or_schead(node)
EbnSchead ==
    /\ pc = "start" /\ "addr_and_ids" \in DOMAIN args
    /\ node' = _remove_last_statement_if_jump_or_schead(node).node
    /\ ret' = _remove_last_statement_if_jump_or_schead(node).ret
    /\ old' = node
    /\ pc' = "schead"
    /\ UNCHANGED args

\* self._remove_last_statement_if_jump_to_addr(node, addr_and_ids)
EbnToAddr ==
    /\ pc = "start" /\ "addr_and_ids" \in DOMAIN args
    /\ node' = _remove_last_statement_if_jump_to_addr(node, args.addr_and_ids)
    /\ ret' = jump_to_addr_returns(node, args.addr_and_ids)
    /\ old' = node
    /\ pc' = "to_addr"
    /\ UNCHANGED args

\* self._reorganize_switch_cases(cases)
EbnReorg == "cases" \in DOMAIN args /\ ReorgCall

EbnNext == EbnJump \/ EbnSchead \/ EbnToAddr \/ EbnReorg

SpecEbn == EbnInit /\ [][EbnNext]_vars

\* the last statement of a case body as the generator built it
CaseLast(i) ==
    LET b == old[args.cases[i].ref].nodes[1]
    IN  IF Len(b.statements) = 0 THEN EmptyBlockNotice ELSE Last(b.statements)

GotoCases == {g.idx : g \in Range(caseid2gotoaddrs(args.cases, old, 1))}

\* C11: when the last-statement query on the node signals EmptyBlockNotice,
\* each of the three removal helpers returns None, raises nothing and leaves
\* the node as it was; _reorganize_switch_cases raises nothing, keeps every
\* key, records no goto for a case with an empty body and still records the
\* goto of every other case that ends in a jump to a constant address.
C11_NoticeNeverPropagates ==
    /\ (/\ pc \in {"jump", "schead", "to_addr"}
        /\ the_stmt(old) = None \/ pc = "to_addr"
        /\ get_last_statements(old) = EmptyBlockNotice)
         => ret = Returned(None) /\ node = old
    /\ (pc = "done" /\ "cases" \in DOMAIN args) =>
         /\ ~ret.raised
         /\ CaseKeys(ret.node) = CaseKeys(args.cases)
         /\ \A i \in 1..Len(args.cases) :
               LET last == CaseLast(i)
               IN  args.cases[i].key \in GotoCases
                     <=> (last # EmptyBlockNotice /\ IsJump(last) /\ IsConst(last.target))

\* a sequence whose last child is an empty block, handed to the schead helper
C11_Witness ==
    /\ pc = "schead"
    /\ old.kind = "Sequence"
    /\ Len(old.nodes) = 2
    /\ Last(old.nodes).kind = "Block"
    /\ Len(Last(old.nodes).statements) = 0
    /\ get_last_statements(old) = EmptyBlockNotice
    /\ ret = Returned(None)
    /\ node = old

(***************************************************************************)
(* The node _loop_create_break_node builds for an exit statement           *)
(***************************************************************************)
IsExitStmt ==
    \/ IsJump(args.last_stmt)
         /\ InSuccessors(args.last_stmt.target, args.loop_successor_addrs)
    \/ IsConditionalJump(args.last_stmt)
         /\ \/ InSuccessors(args.last_stmt.true_target, args.loop_successor_addrs)
            \/ InSuccessors(args.last_stmt.false_target, args.loop_successor_addrs)

\* C12: for an exit statement, _loop_create_break_node returns BreakNode(target)
\* for a Jump; ConditionalBreakNode(c, true target) when only the true target
\* is a successor; ConditionalBreakNode(Not c, false target) when only the
\* false target is; a BreakNode when both are; the target of the node is
\* always in the successor set.
C12_BreakNodeClassification ==
    (pc = "done" /\ IsExitStmt) =>
        LET st == args.last_stmt
            ss == args.loop_successor_addrs
            c == IF IsConditionalJump(st)
                 THEN claripy_ast_from_ail_condition(st.condition) ELSE None
        IN  /\ ~ret.raised
            /\ ret.node.kind \in {"Break", "ConditionalBreak"}
            /\ ret.node.target \in ss
            /\ ret.node.addr = st.ins_addr
            /\ IsJump(st) => ret.node = BreakNode(st.ins_addr, st.target.value)
            /\ IsConditionalJump(st) =>
                 IF ~InSuccessors(st.false_target, ss)
                 THEN ret.node = ConditionalBreakNode(st.ins_addr, c, st.true_target.value)
                 ELSE IF ~InSuccessors(st.true_target, ss)
                 THEN ret.node = ConditionalBreakNode(st.ins_addr, claripy_Not(c),
                                                      st.false_target.value)
                 ELSE ret.node.kind = "Break"

\* only the false target of a conditional jump leaves the loop
C12_Witness ==
    /\ pc = "done"
    /\ IsConditionalJump(args.last_stmt)
    /\ InSuccessors(args.last_stmt.false_target, args.loop_successor_addrs)
    /\ IsConst(args.last_stmt.true_target)
    /\ ~InSuccessors(args.last_stmt.true_target, args.loop_successor_addrs)
    /\ ret.node.kind = "ConditionalBreak"
    /\ ret.node.target = args.last_stmt.false_target.value

(***************************************************************************)
(* The statements that the break pass leaves in the loop body              *)
(***************************************************************************)
RECURSIVE Concat(_)
Concat(qq) == IF Len(qq) = 0 THEN <<>> ELSE qq[1] \o Concat(Tail(qq))

RECURSIVE StmtsIn(_)
\* the statements of the blocks of n, in order (nested loops left out)
StmtsIn(n) ==
    CASE n.kind = "Block" -> n.statements
      [] n.kind \in {"Sequence", "MultiNode"} ->
           Concat([i \in 1..Len(n.nodes) |-> StmtsIn(n.nodes[i])])
      [] n.kind = "Condition" -> StmtsIn(n.true_node) \o StmtsIn(n.false_node)
      [] OTHER -> <<>>

RECURSIVE NonExitStmts(_, _, _)
\* the statements of the blocks of n that the pass does not turn into break
\* nodes, in order
NonExitStmts(n, ctx, successor_addrs) ==
    CASE n.kind = "Block" ->
           LET kept(st) == ~brk_is_exit(st, ctx, successor_addrs)
           IN  SelectSeq(n.statements, kept)
      [] n.kind = "Sequence" ->
           Concat([i \in 1..Len(n.nodes) |->
                      NonExitStmts(n.nodes[i], Ctx(TRUE, n.nodes, i), successor_addrs)])
      [] n.kind = "MultiNode" ->
           Concat([i \in 1..Len(n.nodes) |->
                      NonExitStmts(n.nodes[i], Ctx(FALSE, n.nodes, i), successor_addrs)])
      [] n.kind = "Condition" ->
           NonExitStmts(n.true_node, NoCtx, successor_addrs)
             \o NonExitStmts(n.false_node, NoCtx, successor_addrs)
      [] OTHER -> <<>>

\* C13: after _rewrite_conditional_jumps_to_breaks, every statement that was
\* not converted into a Break/ConditionalBreak node is still present in the
\* blocks of the loop body, in the original order.
C13_NoOtherStatementLost ==
    (pc = "done" /\ ~ret.raised) =>
        StmtsIn(node) = NonExitStmts(old, NoCtx, args.successor_addrs)

(***************************************************************************)
(* SLivenessAnalysis._analyze (s_liveness.py 49-152).                      *)
(* A block is known by its key (addr, idx); idx is None throughout and the *)
(* key is written as the address.  args holds the graph (succ gives the    *)
(* successors of a block in the order networkx iterates them) and the      *)
(* blocks; node holds live_ins, live_outs, live_on_edges and the worklist. *)
(* A varid is a positive number; 0 stands for a phi source that is None.   *)
(***************************************************************************)
MaxBlocks == 4
MaxVars == 2

VExpr(vvars) == [e |-> "Expr", vvars |-> vvars]
Phi(src_and_vvars) == [e |-> "Phi", src_and_vvars |-> src_and_vvars]
Assignment(dst, src) == [s |-> "Assignment", dst |-> dst, src |-> src]
Call(ret_expr, vvars) == [s |-> "Call", ret_expr |-> ret_expr, args |-> VExpr(vvars)]
LBlock(addr, stmts) == [addr |-> addr, idx |-> None, statements |-> stmts]

is_phi_assignment(stmt) == stmt.s = "Assignment" /\ stmt.src.e = "Phi"

\* utils.ail.is_head_controlled_loop_block: the block ends in a jump to its own
\* address and tests its condition with a conditional jump before that
is_head_controlled_loop_block(block) ==
    /\ Len(block.statements) > 0
    /\ IsJump(Last(block.statements))
    /\ IsConst(Last(block.statements).target)
    /\ Last(block.statements).target.value = block.addr
    /\ \E k \in 1..(Len(block.statements) - 1) : IsConditionalJump(block.statements[k])

\* VVarUsesCollector().walk_statement(stmt); .vvars
VVarUsesCollector(stmt) ==
    CASE stmt.s = "Assignment" ->
           IF stmt.src.e = "Phi"
           THEN {stmt.src.src_and_vvars[j].vvar : j \in 1..Len(stmt.src.src_and_vvars)} \ {0}
           ELSE stmt.src.vvars
      [] stmt.s = "Call" -> stmt.args.vvars
      [] stmt.s = "ConditionalJump" -> stmt.condition.vvars
      [] OTHER -> {}

RECURSIVE dfs_node(_, _, _)
RECURSIVE dfs_children(_, _, _, _)
dfs_children(succ, n, i, st) ==
    IF i > Len(succ[n]) THEN st
    ELSE IF succ[n][i] \in st.visited THEN dfs_children(succ, n, i + 1, st)
    ELSE dfs_children(succ, n, i + 1, dfs_node(succ, succ[n][i], st))
dfs_node(succ, n, st) ==
    LET st1 == dfs_children(succ, n, 1, [st EXCEPT !.visited = @ \cup {n}])
    IN  [st1 EXCEPT !.order = Append(@, n)]

\* list(networkx.dfs_postorder_nodes(graph, source=source))
dfs_postorder_nodes(succ, source) ==
    dfs_node(succ, source, [visited |-> {}, order |-> <<>>]).order

\* lines 73-83: what flows back into the block from its successors
flow_back(succ, blocks, st, b) ==
    LET head_controlled_loop == is_head_controlled_loop_block(blocks[b])
        succs == Range(succ[b]) \ (IF head_controlled_loop THEN {b} ELSE {})
    IN  UNION {IF <<b, x>> \in DOMAIN st.live_on_edges
               THEN st.live_on_edges[<<b, x>>]
               ELSE st.live_ins[x] : x \in succs}

\* lines 89-98: the statements that are scanned
scanned_stmts(block) ==
    IF is_head_controlled_loop_block(block)
    THEN LET condjump_idx == CHOOSE k \in 1..Len(block.statements) :
                 /\ IsConditionalJump(block.statements[k])
                 /\ \A j \in 1..(k - 1) : ~IsConditionalJump(block.statements[j])
         IN  SubSeq(block.statements, 1, condjump_idx)
    ELSE block.statements

RECURSIVE phi_srcs(_, _, _, _, _, _)
\* lines 109-119: the loop over phi_expr.src_and_vvars
phi_srcs(block, stmt, j, hcl, live, by_pred) ==
    IF j > Len(stmt.src.src_and_vvars) THEN by_pred
    ELSE LET sv == stmt.src.src_and_vvars[j]
         IN  IF hcl /\ sv.src = block.addr
             THEN phi_srcs(block, stmt, j + 1, hcl, live, by_pred)
             ELSE LET cur == IF sv.src \in DOMAIN by_pred THEN by_pred[sv.src] ELSE live
                      new == (cur \cup (IF sv.vvar # 0 THEN {sv.vvar} ELSE {})) \ {stmt.dst}
                  IN  phi_srcs(block, stmt, j + 1, hcl, live,
                               (sv.src :> new) @@ by_pred)

RECURSIVE scan_stmts(_, _, _, _, _)
\* lines 100-130: the statements in reverse; by_pred is live_in_by_pred
scan_stmts(block, stmts, k, live, by_pred) ==
    IF k = 0 THEN [live |-> live, by_pred |-> by_pred]
    ELSE LET stmt == stmts[k]
             hcl == is_head_controlled_loop_block(block)
             live1 == IF stmt.s = "Assignment" THEN live \ {stmt.dst}
                      ELSE IF stmt.s = "Call" /\ stmt.ret_expr # 0
                      THEN live \ {stmt.ret_expr}
                      ELSE live
             by_pred1 == IF is_phi_assignment(stmt)
                         THEN phi_srcs(block, stmt, 1, hcl, live1, by_pred)
                         ELSE by_pred
             live2 == IF hcl /\ is_phi_assignment(stmt)
                      THEN live1 \cup {stmt.src.src_and_vvars[j].vvar :
                                          j \in {i \in 1..Len(stmt.src.src_and_vvars) :
                                                   /\ stmt.src.src_and_vvars[i].src # block.addr
                                                   /\ stmt.src.src_and_vvars[i].vvar # 0}}
                      ELSE live1 \cup VVarUsesCollector(stmt)
         IN  scan_stmts(block, stmts, k - 1, live2, by_pred1)

\* the block's transfer function: live_in and live_in_by_pred from live_out
transfer(block, live_out) ==
    scan_stmts(block, scanned_stmts(block), Len(scanned_stmts(block)), live_out,
               [x \in {} |-> {}])

\* lines 66-146: one turn of the while loop
analyze_step(succ, blocks, st) ==
    LET b == st.worklist[1]
        live == flow_back(succ, blocks, st, b)
        t == transfer(blocks[b], live)
        edges == [e \in {<<p, b>> : p \in DOMAIN t.by_pred} |-> t.by_pred[e[1]]]
        changed == \/ live # st.live_outs[b]
                   \/ st.live_ins[b] # t.live
                   \/ \E e \in DOMAIN edges :
                         e \notin DOMAIN st.live_on_edges \/ st.live_on_edges[e] # edges[e]
        rest == Tail(st.worklist)
        new_nodes == LET po == dfs_postorder_nodes(succ, b)
                         fresh(x) == x \notin Range(rest)
                     IN  SelectSeq(po, fresh)
    IN  [live_ins |-> [st.live_ins EXCEPT ![b] = t.live],
         live_outs |-> [st.live_outs EXCEPT ![b] = live],
         live_on_edges |-> edges @@ st.live_on_edges,
         worklist |-> IF changed THEN rest \o new_nodes ELSE rest]

Vars == 1..MaxVars

RECURSIVE SortedSeq(_)
SortedSeq(S) ==
    IF S = {} THEN <<>>
    ELSE LET m == CHOOSE x \in S : \A y \in S : x <= y
         IN  <<m>> \o SortedSeq(S \ {m})

\* graphs on 1..n: the path 1 -> 2 -> ... -> n and up to three more edges; a block
\* lists either its path successor or its other successors first
LiveGraphs(n) ==
    LET path == {<<b, b + 1>> : b \in 1..(n - 1)}
        others == ((1..n) \X (1..n)) \ path
    IN  {[b \in 1..n |->
            LET nxt == IF b < n THEN <<b + 1>> ELSE <<>>
                oth == SortedSeq({e[2] : e \in {x \in E : x[1] = b}})
            IN  IF path_first THEN nxt \o oth ELSE oth \o nxt] :
           E \in {X \in SUBSET others : Cardinality(X) <= 3}, path_first \in BOOLEAN}

Uses(v) == Call(0, {v})
Defines(v) == Assignment(v, VExpr({}))
LoopTest(vvars, b) == ConditionalJump(VExpr(vvars), Const(b), Const(b + 1), None, None, b)
LoopBack(b) == Jump(Const(b), None, b)

\* the statements of block b in a graph: nothing, a use or a definition of
\* variable 1; a block with an edge to itself may also be a head-controlled
\* loop block that uses variable 1 after its test
LiveStmts(succ, b) ==
    {<<>>, <<Uses(1)>>, <<Defines(1)>>}
    \cup (IF b \in Range(succ[b])
          THEN {<<LoopTest({}, b), Uses(1), LoopBack(b)>>}
          ELSE {})

\* a block 2 with an edge to itself between an entry 1 and an exit 3: phi
\* statement, test, a use after the test, with or without the jump back
PhiLoopStmts ==
    {<<Assignment(d, Phi(<<[src |-> 2, vvar |-> a], [src |-> 1, vvar |-> c]>>)),
       LoopTest(U, 2), Call(0, W)>> \o back :
        d \in Vars, a \in 0..MaxVars, c \in 0..MaxVars, U \in {{}, {1}},
        W \in {{}, {1}, {2}}, back \in {<<>>, <<LoopBack(2)>>}}

LiveInit ==
    /\ pc = "start"
    /\ node = NoNode
    /\ old = NoNode
    /\ ret = Returned(NoNode)
    /\ \/ \E g \in LiveGraphs(MaxBlocks) :
            \E c \in [1..MaxBlocks -> {0, 1, 2, 3}] :
               /\ \A b \in 1..MaxBlocks : c[b] = 3 => b \in Range(g[b])
               /\ args = [succ |-> g,
                          blocks |-> [b \in 1..MaxBlocks |->
                              LBlock(b, CASE c[b] = 0 -> <<>>
                                          [] c[b] = 1 -> <<Uses(1)>>
                                          [] c[b] = 2 -> <<Defines(1)>>
                                          [] OTHER -> <<LoopTest({}, b), Uses(1),
                                                        LoopBack(b)>>)],
                          entry |-> 1]
       \/ \E q \in PhiLoopStmts, first \in {<<>>, <<Defines(1)>>},
             exit \in {<<>>, <<Uses(1)>>, <<Uses(2)>>}, self_first \in BOOLEAN :
            args = [succ |-> <<(<<2>>), (IF self_first THEN <<2, 3>> ELSE <<3, 2>>), (<<>>)>>,
                    blocks |-> <<LBlock(1, first), LBlock(2, q), LBlock(3, exit)>>,
                    entry |-> 1]

\* lines 49-64: the sets start empty; the worklist is the postorder from entry
LiveStart ==
    /\ pc = "start"
    /\ node' = [live_ins |-> [b \in DOMAIN args.blocks |-> {}],
                live_outs |-> [b \in DOMAIN args.blocks |-> {}],
                live_on_edges |-> [e \in {} |-> {}],
                worklist |-> dfs_postorder_nodes(args.succ, args.entry)]
    /\ old' = node
    /\ pc' = "loop"
    /\ UNCHANGED <<args, ret>>

\* lines 66-146: while worklist
LiveStep ==
    /\ pc = "loop"
    /\ Len(node.worklist) > 0
    /\ node' = analyze_step(args.succ, args.blocks, node)
    /\ old' = node
    /\ UNCHANGED <<pc, args, ret>>

\* lines 148-150: the model is set
LiveFinish ==
    /\ pc = "loop"
    /\ Len(node.worklist) = 0
    /\ ret' = Returned([live_ins |-> node.live_ins, live_outs |-> node.live_outs])
    /\ pc' = "done"
    /\ UNCHANGED <<node, old, args>>

LiveNext == LiveStart \/ LiveStep \/ LiveFinish

SpecLive == LiveInit /\ [][LiveNext]_vars

ReachableBlocks == Range(dfs_postorder_nodes(args.succ, args.entry))

\* C14: when _analyze has finished, for every block reachable from the entry
\* live_out is the union of the final live-in sets of its successors (the
\* per-edge set where there is one) and live_in is the block's transfer
\* function applied to that live_out.
C14_FixedPoint ==
    pc = "done" =>
        \A b \in ReachableBlocks :
            /\ ret.node.live_outs[b] = flow_back(args.succ, args.blocks, node, b)
            /\ ret.node.live_ins[b] = transfer(args.blocks[b], ret.node.live_outs[b]).live

\* the head-controlled loop blocks with an edge to themselves
SelfLoopHeads ==
    {b \in ReachableBlocks : /\ is_head_controlled_loop_block(args.blocks[b])
                             /\ b \in Range(args.succ[b])}

\* the variables the statements after the first conditional jump use
UsedAfterTest(block) ==
    UNION {VVarUsesCollector(block.statements[k]) :
              k \in (Len(scanned_stmts(block)) + 1)..Len(block.statements)}

\* the variables the statements up to the first conditional jump use
UsedUpToTest(block) ==
    UNION {VVarUsesCollector(block.statements[k]) : k \in 1..Len(scanned_stmts(block))}

\* C15: for a head-controlled loop block with a self-loop edge, the live_out
\* that _analyze returns is the union over the successors other than the block
\* itself, and a variable that only the statements after the first conditional
\* jump use (none before it, not live out) is not in its live_in.
C15_SelfLoopExcluded ==
    pc = "done" =>
        \A b \in SelfLoopHeads :
            /\ ret.node.live_outs[b] =
                 UNION {IF <<b, x>> \in DOMAIN node.live_on_edges
                        THEN node.live_on_edges[<<b, x>>]
                        ELSE ret.node.live_ins[x] : x \in Range(args.succ[b]) \ {b}}
            /\ \A v \in UsedAfterTest(args.blocks[b]) :
                  (v \notin UsedUpToTest(args.blocks[b]) /\ v \notin ret.node.live_outs[b])
                     => v \notin ret.node.live_ins[b]

(***************************************************************************)
(* ContinueNodes at the ends of the loop body                              *)
(***************************************************************************)
RECURSIVE TrailingContinues(_)
\* the ContinueNodes that are the last child of a Sequence or MultiNode in
\* trailing position (nested loops and switch-cases are not looked into)
TrailingContinues(n) ==
    CASE n.kind \in {"Sequence", "MultiNode"} ->
           IF Len(n.nodes) = 0 THEN 0
           ELSE IF Last(n.nodes).kind = "Continue" THEN 1
           ELSE TrailingContinues(Last(n.nodes))
      [] n.kind = "Condition" ->
           TrailingContinues(n.true_node) + TrailingContinues(n.false_node)
      [] OTHER -> 0

\* the loop body after the walk, before the trailing ContinueNodes are removed
AfterWalk == rjc_walk(old, continue_node_addr(old, args.loop_node))

\* C16: after _rewrite_jumps_to_continues the last child of the loop body, and
\* of every Sequence or MultiNode in trailing position of it, is no
\* ContinueNode, and every ContinueNode that was not in such a position is
\* still there.
C16_NoTrailingContinue ==
    pc = "done" =>
        /\ TrailingContinues(node) = 0
        /\ CountKinds(node, {"Continue"})
             = CountKinds(AfterWalk, {"Continue"}) - TrailingContinues(AfterWalk)

\* a ContinueNode in the middle of the body is kept while the one at the end of
\* the body is removed
C16_Witness ==
    /\ pc = "done"
    /\ TrailingContinues(AfterWalk) > 0
    /\ CountKinds(node, {"Continue"}) > 0
    /\ CountKinds(node, {"Continue"}) < CountKinds(AfterWalk, {"Continue"})

(***************************************************************************)
(* The explicit exit of a case that ends in a one-sided ConditionNode      *)
(***************************************************************************)
EndsInOneSidedCondition(c) ==
    /\ c.kind = "Sequence"
    /\ Len(c.nodes) > 0
    /\ Last(c.nodes).kind = "Condition"
    /\ (Last(c.nodes).true_node = NoNode) # (Last(c.nodes).false_node = NoNode)

\* C17: after _switch_handle_gotos, every case body that was a Sequence whose
\* final child was a ConditionNode with exactly one branch ends with a
\* BreakNode to switch_end_addr, made from the jump that was appended in an
\* empty block at the address of the ConditionNode.
C17_ExplicitExitAfterOneSidedCondition ==
    pc = "done" =>
        \A i \in 1..Len(old.cases) :
            LET c == old.cases[i].node
                n == node.cases[i].node
            IN  EndsInOneSidedCondition(c) =>
                  /\ n.kind = "Sequence"
                  /\ Len(n.nodes) = Len(c.nodes) + 2
                  /\ Last(n.nodes) = BreakNode(Last(c.nodes).addr, args.switch_end_addr)
                  /\ n.nodes[Len(n.nodes) - 1] = Block(Last(c.nodes).addr, 0, <<>>)
                  /\ n.nodes[Len(n.nodes) - 2].kind = "Condition"

\* a case that ends in a ConditionNode with only a false branch, whose block
\* does not go to the end of the switch
C17_Witness ==
    /\ pc = "done"
    /\ EndsInOneSidedCondition(old.cases[1].node)
    /\ Last(old.cases[1].node.nodes).true_node = NoNode
    /\ ~GoesOnlyTo(Last(old.cases[1].node.nodes).false_node, args.switch_end_addr)
    /\ Last(node.cases[1].node.nodes).kind = "Break"

(***************************************************************************)
(* The order of the cases that _reorganize_switch_cases returns            *)
(***************************************************************************)
PosOf(d, k) == CHOOSE i \in 1..Len(d) : d[i].key = k

\* the links that remain once the edges R are taken away to break the loops
Links(R) == CaseGraph.edges \ R

\* C18: in the mapping _reorganize_switch_cases returns, for every link a -> b
\* that remains after the one-in/one-out restriction and the breaking of
\* cycles, b comes immediately after a, and every case that comes first or
\* does not follow its predecessor by a link has no incoming link.
C18_ChainsContiguous ==
    pc = "done" =>
        /\ ~ret.raised
        /\ \E R \in break_loops(CaseGraph.edges) :
              /\ \A e \in Links(R) :
                    /\ {e[1], e[2]} \subseteq CaseKeys(ret.node)
                    /\ PosOf(ret.node, e[2]) = PosOf(ret.node, e[1]) + 1
              /\ \A p \in 1..Len(ret.node) :
                    (p = 1 \/ <<ret.node[p - 1].key, ret.node[p].key>> \notin Links(R))
                       => \A e \in Links(R) : e[2] # ret.node[p].key

\* a chain of three cases that was not in this order in the input
C18_Witness ==
    /\ pc = "done"
    /\ ~ret.raised
    /\ Cardinality(CaseGraph.edges) = 2
    /\ ~HasCycle(CaseGraph.edges)
    /\ \E a, b, c \in CaseKeys(args.cases) :
          /\ {<<a, b>>, <<b, c>>} = CaseGraph.edges
          /\ a > b
          /\ PosOf(ret.node, b) = PosOf(ret.node, a) + 1
          /\ PosOf(ret.node, c) = PosOf(ret.node, b) + 1

CaseAddr(i) == old[args.cases[i].ref].addr

\* case i ends in a goto to the address of a case other than itself
GotoToAnotherCase(i) ==
    LET last == CaseLast(i)
    IN  /\ last # EmptyBlockNotice
        /\ IsJump(last)
        /\ IsConst(last.target)
        /\ \E j \in 1..Len(args.cases) : j # i /\ CaseAddr(j) = last.target.value

\* the keys of d that are in S, in the order of d
KeysIn(d, S) ==
    LET in_S(c) == c.key \in S
        sel == SelectSeq(d, in_S)
    IN  [i \in 1..Len(sel) |-> sel[i].key]

\* the cases that no link of the graph touches
Unlinked == {k \in CaseKeys(args.cases) : \A e \in CaseGraph.edges : k \notin {e[1], e[2]}}

\* C19: the unlinked cases keep their relative order in the result, and when no
\* case ends in a goto to another case's address the input mapping is returned
\* as it was: same order, no case body modified.
C19_UnlinkedOrderKept ==
    pc = "done" =>
        /\ ~ret.raised
        /\ KeysIn(ret.node, Unlinked) = KeysIn(args.cases, Unlinked)
        /\ (\A i \in 1..Len(args.cases) : ~GotoToAnotherCase(i))
             => ret.node = args.cases /\ node = old

\* C20: a case lost its trailing jump only if that jump went to the address of
\* the case that comes immediately after it in the returned order.
C20_JumpRemovedOnlyBeforeItsTarget ==
    (pc = "done" /\ ~ret.raised) =>
        \A i \in 1..Len(args.cases) :
            node[args.cases[i].ref] # old[args.cases[i].ref] =>
                LET p == PosOf(ret.node, args.cases[i].key)
                IN  /\ p < Len(ret.node)
                    /\ old[ret.node[p + 1].ref].addr = CaseLast(i).target.value

(***************************************************************************)
(* What _remove_redundant_jumps makes of a trailing jump to the next       *)
(* sibling                                                                 *)
(***************************************************************************)
\* the rewrite of the trailing jump of old_stmts against the address of the
\* next sibling, as it is claimed
RewriteAsClaimed(old_stmts, new_stmts, next_addr) ==
    LET j == Last(old_stmts)
    IN  IF IsJump(j)
        THEN (IsConst(j.target) /\ j.target.value = next_addr)
                => new_stmts = Front(old_stmts)
        ELSE IF IsConst(j.true_target) /\ j.true_target.value = next_addr
        THEN /\ j.false_target # None
             /\ new_stmts = [old_stmts EXCEPT ![Len(old_stmts)] =
                    ConditionalJump(UnaryOpNot(j.condition), j.false_target, None,
                                    j.false_target_idx, None, j.ins_addr)]
        ELSE (IsConst(j.false_target) /\ j.false_target.value = next_addr)
                => new_stmts = [old_stmts EXCEPT ![Len(old_stmts)] =
                       ConditionalJump(j.condition, j.true_target, None,
                                       j.true_target_idx, None, j.ins_addr)]

RECURSIVE RewrittenAsClaimed(_, _)
\* every block child of a list of o that has a next sibling and ends in a jump
\* is in n what the claimed rewrite makes of it
RewrittenAsClaimed(o, n) ==
    CASE o.kind \in {"Sequence", "MultiNode"} ->
           \A i \in 1..Len(o.nodes) :
               /\ (i < Len(o.nodes) /\ EndsWithJumpStmt(o.nodes[i]))
                    => RewriteAsClaimed(o.nodes[i].statements, n.nodes[i].statements,
                                        o.nodes[i + 1].addr)
               /\ RewrittenAsClaimed(o.nodes[i], n.nodes[i])
      [] OTHER -> TRUE

\* C21: after one application of _remove_redundant_jumps, a trailing
\* ConditionalJump whose true target was the next sibling is a single-target
\* ConditionalJump on Not(condition) to the original false target; one whose
\* false target was the next sibling keeps condition and true target and has
\* lost only the false target; a Jump to the next sibling is removed.
C21_RedundantJumpRewrite ==
    pc = "once" => RewrittenAsClaimed(old, node)

RECURSIVE CondBreaksIn(_)
RECURSIVE CondBreaksFrom(_, _)
\* the number of ConditionalBreakNodes in the tree
CondBreaksFrom(nodes, i) ==
    IF i > Len(nodes) THEN 0 ELSE CondBreaksIn(nodes[i]) + CondBreaksFrom(nodes, i + 1)
CondBreaksIn(n) ==
    CASE n.kind = "ConditionalBreak" -> 1
      [] n.kind = "Sequence" -> CondBreaksFrom(n.nodes, 1)
      [] n.kind = "Condition" -> CondBreaksIn(n.true_node) + CondBreaksIn(n.false_node)
      [] n.kind = "Loop" -> CondBreaksIn(n.sequence_node)
      [] n.kind = "Code" -> CondBreaksIn(n.node)
      [] OTHER -> 0

RECURSIVE TargetRunsIn(_)
RECURSIVE TargetRunsFrom(_, _)
\* the number of maximal runs of adjacent ConditionalBreakNodes with one and
\* the same target, over every SequenceNode of the tree; a ConditionalBreakNode
\* that is not the child of a SequenceNode is a run of its own
TargetRunsFrom(nodes, i) ==
    IF i > Len(nodes) THEN 0
    ELSE LET n == Unpack(nodes[i])
         IN  (IF n.kind = "ConditionalBreak"
              THEN IF /\ i > 1
                      /\ Unpack(nodes[i - 1]).kind = "ConditionalBreak"
                      /\ Unpack(nodes[i - 1]).target = n.target
                   THEN 0 ELSE 1
              ELSE TargetRunsIn(n))
             + TargetRunsFrom(nodes, i + 1)
TargetRunsIn(n) ==
    CASE n.kind = "ConditionalBreak" -> 1
      [] n.kind = "Sequence" -> TargetRunsFrom(n.nodes, 1)
      [] n.kind = "Condition" -> TargetRunsIn(n.true_node) + TargetRunsIn(n.false_node)
      [] n.kind = "Loop" -> TargetRunsIn(n.sequence_node)
      [] n.kind = "Code" -> TargetRunsIn(n.node)
      [] OTHER -> 0

\* C22: _merge_conditional_breaks merges two adjacent ConditionalBreakNodes
\* only when they have the same target address, and leaves adjacent conditional
\* breaks with different targets as two nodes: the tree it returns has one
\* ConditionalBreakNode for each run of adjacent conditional breaks with one
\* target.
C22_OnlySameTargetMerged ==
    pc = "done" => CondBreaksIn(node) = TargetRunsIn(old)

(***************************************************************************)
(* _merge_nesting_conditionals applied to its own output.                  *)
(***************************************************************************)
\* merged, seq = self._merge_nesting_conditionals(seq), once more
MncAgain ==
    /\ pc = "done"
    /\ old' = node
    /\ node' = _merge_nesting_conditionals(node).node
    /\ ret' = [raised |-> FALSE, node |-> _merge_nesting_conditionals(node).node,
               merged |-> _merge_nesting_conditionals(node).merged]
    /\ pc' = "again"
    /\ UNCHANGED args

IdemNext == MncCall \/ MncAgain

SpecIdem == MncInit /\ [][IdemNext]_vars

\* C23: _merge_nesting_conditionals is idempotent: applied to its own output,
\* for any input tree, one-sided conditions nested three deep included, it
\* reports merged=False and leaves the tree unchanged.
C23_NestingMergeIdempotent ==
    pc = "again" => (node = old /\ ~ret.merged)

(***************************************************************************)
(* The simplification loop: _merge_conditional_breaks and then             *)
(* _merge_nesting_conditionals, repeated until neither reports a merge.    *)
(* rounds counts the completed rounds and stops counting at MaxRounds.     *)
(***************************************************************************)
MaxRounds == 4

RECURSIVE NodeCount(_)
RECURSIVE NodeCountFrom(_, _)
\* the number of nodes in the tree
NodeCountFrom(nodes, i) ==
    IF i > Len(nodes) THEN 0 ELSE NodeCount(nodes[i]) + NodeCountFrom(nodes, i + 1)
NodeCount(n) ==
    CASE n.kind = "None" -> 0
      [] n.kind = "Sequence" -> 1 + NodeCountFrom(n.nodes, 1)
      [] n.kind = "Condition" -> 1 + NodeCount(n.true_node) + NodeCount(n.false_node)
      [] n.kind = "Loop" -> 1 + NodeCount(n.sequence_node)
      [] n.kind = "Code" -> 1 + NodeCount(n.node)
      [] OTHER -> 1

FixInit ==
    /\ pc = "idle"
    /\ node = NoNode
    /\ old = NoNode
    /\ args = [seq |-> NoNode, merged |-> FALSE, rounds |-> 0]
    /\ ret = [raised |-> FALSE, node |-> NoNode, merged |-> FALSE]

\* the loop is entered with a tree
FixEnter ==
    /\ pc = "idle"
    /\ \E seq \in McbInputs \cup MncInputs :
          /\ node' = seq
          /\ old' = seq
          /\ args' = [seq |-> seq, merged |-> FALSE, rounds |-> 0]
    /\ pc' = "breaks"
    /\ UNCHANGED ret

\* r, seq = self._merge_conditional_breaks(seq)
FixBreaks ==
    /\ pc = "breaks"
    /\ \E r \in {_merge_conditional_breaks(node)} :
          /\ node' = r.node
          /\ ret' = [raised |-> FALSE, node |-> r.node, merged |-> r.merged]
          /\ args' = [args EXCEPT !.merged = r.merged]
    /\ old' = node
    /\ pc' = "nesting"

\* r, seq = self._merge_nesting_conditionals(seq); one more round if either
\* pass of this round merged
FixNesting ==
    /\ pc = "nesting"
    /\ \E r \in {_merge_nesting_conditionals(node)} :
          /\ node' = r.node
          /\ ret' = [raised |-> FALSE, node |-> r.node, merged |-> r.merged]
          /\ pc' = IF args.merged \/ r.merged THEN "breaks" ELSE "fixed"
    /\ args' = [args EXCEPT !.merged = FALSE,
                            !.rounds = IF @ < MaxRounds THEN @ + 1 ELSE @]
    /\ old' = node

FixNext == FixEnter \/ FixBreaks \/ FixNesting

\* the loop is sequential code: a pass that is entered returns, and control
\* moves on to the next pass or out of the loop
FixAdvance == pc # "fixed" /\ pc' \in {"breaks", "nesting", "fixed"} \ {pc}

SpecFix == FixInit /\ [][FixNext]_vars /\ WF_pc(FixAdvance)

\* C24: the simplification loop terminates: applying _merge_conditional_breaks
\* and _merge_nesting_conditionals in this order until both return
\* merged=False reaches that state after finitely many rounds, and a pass
\* returns merged=True only when it has strictly reduced the number of nodes
\* in the tree.
C24_FixpointTerminates ==
    /\ [][ret'.merged => NodeCount(node') < NodeCount(node)]_vars
    /\ <>(pc = "fixed")

\* the loop ended after three rounds: two that merged and one that did not
C24_Witness ==
    /\ pc = "fixed"
    /\ args.rounds = 3
    /\ ~ret.merged
    /\ NodeCount(node) + 2 <= NodeCount(args.seq)


(***************************************************************************)
(* replace_nodes (structurer_base.py 1048-1069).  The graph is a networkx  *)
(* DiGraph: a set of nodes and at most one edge per ordered pair of nodes, *)
(* each edge with a dictionary of attributes.                              *)
(***************************************************************************)
DataDiGraph(nodes, edges) == [nodes |-> nodes, edges |-> edges]
has_edge(G, u, v) == <<u, v>> \in DOMAIN G.edges

\* dict.update: the keys of both, the values of the second where it has the key
dict_update(d, data) ==
    [k \in DOMAIN d \cup DOMAIN data |-> IF k \in DOMAIN data THEN data[k] ELSE d[k]]

\* graph.in_edges(n, data=True) and graph.out_edges(n, data=True), as sets of
\* (src, dst, data)
in_edges(G, n) == {<<e[1], e[2], G.edges[e]>> : e \in {x \in DOMAIN G.edges : x[2] = n}}
out_edges(G, n) == {<<e[1], e[2], G.edges[e]>> : e \in {x \in DOMAIN G.edges : x[1] = n}}

\* graph.remove_node(n): the node and every edge at it
remove_node(G, n) ==
    DataDiGraph(G.nodes \ {n},
            [e \in {x \in DOMAIN G.edges : x[1] # n /\ x[2] # n} |-> G.edges[e]])

add_node(G, n) == DataDiGraph(G.nodes \cup {n}, G.edges)

\* graph.add_edge(u, v, **data): a new edge, or an update of the attributes of
\* the edge that is there
add_edge(G, u, v, data) ==
    DataDiGraph(G.nodes \cup {u, v},
            [e \in DOMAIN G.edges \cup {<<u, v>>} |->
                IF e = <<u, v>>
                THEN IF has_edge(G, u, v) THEN dict_update(G.edges[e], data) ELSE data
                ELSE G.edges[e]])

RECURSIVE rn_in_edges_any_loop(_, _, _, _, _, _)
\* a variant that adds the self-loop whatever self_loop says
rn_in_edges_any_loop(G, todo, old_node_0, new_node, old_node_1, self_loop) ==
    IF todo = {} THEN G
    ELSE LET e == CHOOSE x \in todo : TRUE
             src == e[1]
             dst == e[2]
             data == e[3]
             G1 == IF src # old_node_0 /\ src # old_node_1
                   THEN add_edge(G, src, new_node, data)
                   ELSE IF src = old_node_1 /\ dst = old_node_0
                   THEN add_edge(G, new_node, new_node, data)
                   ELSE G
         IN  rn_in_edges_any_loop(G1, todo \ {e}, old_node_0, new_node, old_node_1,
                                  self_loop)

RECURSIVE rn_in_edges(_, _, _, _, _, _)
\* lines 1058-1063, over the in-edges still to do
rn_in_edges(G, todo, old_node_0, new_node, old_node_1, self_loop) ==
    IF todo = {} THEN G
    ELSE LET e == CHOOSE x \in todo : TRUE
             src == e[1]
             dst == e[2]
             data == e[3]
             G1 == IF src # old_node_0 /\ src # old_node_1
                   THEN add_edge(G, src, new_node, data)
                   ELSE IF src = old_node_1 /\ dst = old_node_0 /\ self_loop
                   THEN add_edge(G, new_node, new_node, data)
                   ELSE G
         IN  rn_in_edges(G1, todo \ {e}, old_node_0, new_node, old_node_1, self_loop)

RECURSIVE rn_out_edges(_, _, _, _, _, _)
\* lines 1064-1069, over the out-edges still to do
rn_out_edges(G, todo, old_node_0, new_node, old_node_1, self_loop) ==
    IF todo = {} THEN G
    ELSE LET e == CHOOSE x \in todo : TRUE
             src == e[1]
             dst == e[2]
             data == e[3]
             G1 == IF dst # old_node_0 /\ dst # old_node_1
                   THEN add_edge(G, new_node, dst, data)
                   ELSE IF src = old_node_1 /\ dst = old_node_0 /\ self_loop
                   THEN add_edge(G, new_node, new_node, data)
                   ELSE G
         IN  rn_out_edges(G1, todo \ {e}, old_node_0, new_node, old_node_1, self_loop)

\* replace_nodes(graph, old_node_0, new_node, old_node_1, self_loop); the
\* out-edges of old_node_0 come before those of old_node_1 (line 1052)
replace_nodes(graph, old_node_0, new_node, old_node_1, self_loop) ==
    LET ins == in_edges(graph, old_node_0)
        outs_0 == out_edges(graph, old_node_0)
        outs_1 == IF old_node_1 # "None" THEN out_edges(graph, old_node_1) ELSE {}
        G1 == remove_node(graph, old_node_0)
        G2 == IF old_node_1 # "None" THEN remove_node(G1, old_node_1) ELSE G1
        G3 == add_node(G2, new_node)
        G4 == rn_in_edges(G3, ins, old_node_0, new_node, old_node_1, self_loop)
        G5 == rn_out_edges(G4, outs_0, old_node_0, new_node, old_node_1, self_loop)
    IN  rn_out_edges(G5, outs_1, old_node_0, new_node, old_node_1, self_loop)

(***************************************************************************)
(* Graphs for replace_nodes: the two old nodes and one more node, or one   *)
(* old node and two more nodes; any edges between them but a self-loop of  *)
(* a node that is not replaced; each edge with no attribute or one.        *)
(***************************************************************************)
EdgeDatas == {[k \in {} |-> "x"]} \cup {[k \in {"type"} |-> v] : v \in {"t1", "t2"}}
RnNodes == {"n0", "n1", "n2"}
RnPairs == (RnNodes \X RnNodes) \ {<<"n2", "n2">>}

RnInit ==
    /\ pc = "start"
    /\ \E present \in SUBSET RnPairs :
          \E edges \in [present -> EdgeDatas] :
             /\ node = DataDiGraph(RnNodes, edges)
             /\ old = DataDiGraph(RnNodes, edges)
    /\ args \in {[old_node_0 |-> "n0", new_node |-> "new", old_node_1 |-> o, self_loop |-> b] :
                    o \in {"n1", "None"}, b \in BOOLEAN}
    /\ ret = Returned(NoNode)

\* self.replace_nodes(graph, old_node_0, new_node, old_node_1=..., self_loop=...)
RnCall ==
    /\ pc = "start"
    /\ node' = replace_nodes(node, args.old_node_0, args.new_node, args.old_node_1,
                             args.self_loop)
    /\ old' = node
    /\ pc' = "done"
    /\ UNCHANGED <<args, ret>>

RnNext == RnCall

SpecRn == RnInit /\ [][RnNext]_vars

OldNodes == {args.old_node_0, args.old_node_1} \ {"None"}
ThirdNodes == old.nodes \ OldNodes

\* C25: replace_nodes preserves in/out edges: afterwards neither old node is in
\* the graph, every edge between a third node and old_node_0 or old_node_1,
\* incoming or outgoing, exists as the edge between that third node and
\* new_node with the same edge data, and every edge not incident to an old
\* node is unchanged.
C25_EdgesPreserved ==
    pc = "done" =>
        /\ OldNodes \cap node.nodes = {}
        /\ \A t \in ThirdNodes : \A o \in OldNodes :
              /\ has_edge(old, t, o) =>
                    (has_edge(node, t, "new") /\ node.edges[<<t, "new">>] = old.edges[<<t, o>>])
              /\ has_edge(old, o, t) =>
                    (has_edge(node, "new", t) /\ node.edges[<<"new", t>>] = old.edges[<<o, t>>])
        /\ \A t \in ThirdNodes : \A u \in ThirdNodes :
              /\ has_edge(node, t, u) = has_edge(old, t, u)
              /\ has_edge(old, t, u) => node.edges[<<t, u>>] = old.edges[<<t, u>>]

TwoNodeCycle == has_edge(old, "n0", "n1") /\ has_edge(old, "n1", "n0")

\* C26: when old_node_0 and old_node_1 form a two-node cycle and self_loop is
\* true, new_node ends with one self-loop edge carrying the data of the
\* old_node_1 -> old_node_0 edge; when self_loop is false, or no edge
\* old_node_1 -> old_node_0 existed, new_node has no self-loop.
C26_SelfLoopReattached ==
    pc = "done" =>
        /\ (args.old_node_1 = "n1" /\ TwoNodeCycle /\ args.self_loop) =>
              /\ has_edge(node, "new", "new")
              /\ node.edges[<<"new", "new">>] = old.edges[<<"n1", "n0">>]
        /\ (~args.self_loop \/ args.old_node_1 = "None" \/ ~has_edge(old, "n1", "n0")) =>
              ~has_edge(node, "new", "new")

\* a two-node cycle with an attribute on its back edge was collapsed into a
\* self-loop, and the old nodes had self-loops of their own
C26_Witness ==
    /\ pc = "done"
    /\ args.old_node_1 = "n1" /\ args.self_loop
    /\ TwoNodeCycle
    /\ old.edges[<<"n1", "n0">>] = [k \in {"type"} |-> "t2"]
    /\ old.edges[<<"n0", "n1">>] = [k \in {"type"} |-> "t1"]
    /\ has_edge(old, "n0", "n0") /\ has_edge(old, "n1", "n1")
    /\ node.edges[<<"new", "new">>] = [k \in {"type"} |-> "t2"]

(***************************************************************************)
(* _merge_nodes (structurer_base.py 988-1034).                             *)
(***************************************************************************)
\* lines 993-998: the block whose trailing jump is fixed
mn_last_node(node_0) ==
    IF node_0.kind \in {"Sequence", "MultiNode"} /\ Len(node_0.nodes) > 0
    THEN Last(node_0.nodes)
    ELSE IF IsBlock(node_0) THEN node_0 ELSE NoNode

\* lines 1000-1026: the statements of last_node after the fix
mn_fix_statements(stmts, addr_1) ==
    LET last_stmt == Last(stmts)
    IN  IF IsJump(last_stmt) THEN Front(stmts)
        ELSE IF IsConditionalJump(last_stmt)
        THEN IF IsConst(last_stmt.true_target) /\ last_stmt.true_target.value = addr_1
             THEN [stmts EXCEPT ![Len(stmts)] =
                      ConditionalJump(UnaryOpNot(last_stmt.condition),
                                      last_stmt.false_target, None,
                                      last_stmt.false_target_idx, None,
                                      last_stmt.ins_addr)]
             ELSE IF IsConst(last_stmt.false_target) /\ last_stmt.false_target.value = addr_1
             THEN [stmts EXCEPT ![Len(stmts)] =
                      ConditionalJump(last_stmt.condition,
                                      last_stmt.true_target, None,
                                      last_stmt.true_target_idx, None,
                                      last_stmt.ins_addr)]
             ELSE stmts
        ELSE stmts

\* lines 999-1026: node_0 after the fix of its last block, which is changed in
\* place
mn_fixed(node_0, addr_1) ==
    LET last_node == mn_last_node(node_0)
    IN  IF IsBlock(last_node) /\ Len(last_node.statements) > 0
        THEN IF IsBlock(node_0)
             THEN [node_0 EXCEPT !.statements = mn_fix_statements(@, addr_1)]
             ELSE [node_0 EXCEPT !.nodes[Len(node_0.nodes)].statements =
                      mn_fix_statements(@, addr_1)]
        ELSE node_0

\* every node of the model has an address, so addr (line 990) is node_0.addr
_merge_nodes(node_0, node_1) ==
    LET addr == node_0.addr
        fixed == mn_fixed(node_0, node_1.addr)
    IN  IF fixed.kind = "Sequence"
        THEN IF node_1.kind = "Sequence"
             THEN SequenceNode(addr, fixed.nodes \o node_1.nodes)
             ELSE SequenceNode(addr, Append(fixed.nodes, node_1))
        ELSE IF node_1.kind = "Sequence"
        THEN SequenceNode(addr, <<fixed>> \o node_1.nodes)
        ELSE SequenceNode(addr, <<fixed, node_1>>)

(***************************************************************************)
(* Pairs of nodes to merge: node_0 a block, a Sequence or MultiNode ending *)
(* in that block, a Sequence ending in a MultiNode, an empty Sequence or a *)
(* ConditionNode; node_1 a block, a Sequence or a MultiNode at any         *)
(* address.                                                                *)
(***************************************************************************)
MnFirsts ==
    UNION {
      { b,
        SequenceNode(1, <<b>>),
        SequenceNode(1, <<Plain(1), b>>),
        MultiNode(1, <<Plain(1), b>>),
        SequenceNode(1, <<MultiNode(1, <<b>>)>>),
        ConditionNode(1, Cond(1), b, NoNode) } : b \in BlocksAt(1) }
    \cup {SequenceNode(1, <<>>)}
MnSeconds ==
    UNION {
      { Plain(a),
        SequenceNode(a, <<Plain(a), Plain(PosAddr(a + 1))>>),
        MultiNode(a, <<Plain(a)>>) } : a \in Addrs }

MnInit ==
    /\ pc = "start"
    /\ args \in {[node_0 |-> n0, node_1 |-> n1] : n0 \in MnFirsts, n1 \in MnSeconds}
    /\ node = NoNode
    /\ old = NoNode
    /\ ret = Returned(NoNode)

\* new_seq = self._merge_nodes(node_0, node_1)
MnCall ==
    /\ pc = "start"
    /\ node' = _merge_nodes(args.node_0, args.node_1)
    /\ ret' = Returned(_merge_nodes(args.node_0, args.node_1))
    /\ old' = args.node_0
    /\ pc' = "done"
    /\ UNCHANGED args

MnNext == MnCall

SpecMn == MnInit /\ [][MnNext]_vars

ChildrenOf(n) == IF n.kind = "Sequence" THEN n.nodes ELSE <<n>>

\* the statements of the last block as the claim describes them
ConnectingJumpFixed(stmts, addr_1) ==
    LET j == Last(stmts)
    IN  IF IsJump(j)
        THEN IF IsConst(j.target) /\ j.target.value = addr_1 THEN Front(stmts) ELSE stmts
        ELSE IF IsConditionalJump(j)
        THEN IF IsConst(j.true_target) /\ j.true_target.value = addr_1
             THEN [stmts EXCEPT ![Len(stmts)] =
                      ConditionalJump(UnaryOpNot(j.condition), j.false_target, None,
                                      j.false_target_idx, None, j.ins_addr)]
             ELSE IF IsConst(j.false_target) /\ j.false_target.value = addr_1
             THEN [stmts EXCEPT ![Len(stmts)] =
                      ConditionalJump(j.condition, j.true_target, None,
                                      j.true_target_idx, None, j.ins_addr)]
             ELSE stmts
        ELSE stmts
FirstAsClaimed(node_0, addr_1) ==
    LET last_node == mn_last_node(node_0)
    IN  IF IsBlock(last_node) /\ Len(last_node.statements) > 0
        THEN IF IsBlock(node_0)
             THEN [node_0 EXCEPT !.statements = ConnectingJumpFixed(@, addr_1)]
             ELSE [node_0 EXCEPT !.nodes[Len(node_0.nodes)].statements =
                      ConnectingJumpFixed(@, addr_1)]
        ELSE node_0

\* C27: _merge_nodes(node_0, node_1) returns a SequenceNode whose children are
\* node_0's children (node_0 itself when it is not a Sequence) followed by
\* node_1's children (node_1 itself when it is not a Sequence), and it changes
\* only the connecting jump: a trailing Jump of node_0 is removed only if it
\* targets node_1's address, a trailing ConditionalJump is reduced to its other
\* target (with the condition negated when the true target was node_1), and a
\* trailing jump that does not target node_1 is left unchanged.
C27_MergeNodes ==
    pc = "done" =>
        /\ node.kind = "Sequence"
        /\ node.nodes = ChildrenOf(FirstAsClaimed(args.node_0, args.node_1.addr))
                          \o ChildrenOf(args.node_1)

(***************************************************************************)
(* The child slots of a parent that replace_node_in_node supports.         *)
(***************************************************************************)
Supported(n) == n.kind \in {"Sequence", "Condition", "CascadingCondition"}
\* the children in the order the function looks at them
SlotsOf(n) ==
    CASE n.kind = "Sequence" -> n.nodes
      [] n.kind = "Condition" -> <<n.true_node, n.false_node>>
      [] n.kind = "CascadingCondition" ->
           [k \in 1..Len(n.condition_and_nodes) |-> n.condition_and_nodes[k][2]]
\* the conditions of the parent
ConditionsOf(n) ==
    CASE n.kind = "Sequence" -> <<>>
      [] n.kind = "Condition" -> <<n.condition>>
      [] n.kind = "CascadingCondition" ->
           [k \in 1..Len(n.condition_and_nodes) |-> n.condition_and_nodes[k][1]]
HoldingSlots == {k \in 1..Len(SlotsOf(old)) : SlotsOf(old)[k] = args.old_node}

\* C28: on a SequenceNode, ConditionNode or CascadingConditionNode parent,
\* replace_node_in_node puts new_node in the first child slot that holds
\* old_node and leaves every other child and every condition as it was; when
\* no slot holds old_node, the parent is unchanged and nothing is raised.
C28_FirstSlotReplaced ==
    (pc = "done" /\ Supported(old)) =>
        /\ ~ret.raised
        /\ node.kind = old.kind /\ node.addr = old.addr
        /\ ConditionsOf(node) = ConditionsOf(old)
        /\ Len(SlotsOf(node)) = Len(SlotsOf(old))
        /\ \A k \in 1..Len(SlotsOf(old)) :
              SlotsOf(node)[k] = IF k \in HoldingSlots /\ \A j \in HoldingSlots : k <= j
                                 THEN args.new_node
                                 ELSE SlotsOf(old)[k]
        /\ (HoldingSlots = {} => node = old)

\* old_node was in more than one slot and only the first one got new_node
C28_Witness ==
    /\ pc = "done"
    /\ Supported(old)
    /\ args.new_node # args.old_node
    /\ \E j \in HoldingSlots : \E k \in HoldingSlots :
          /\ j < k
          /\ SlotsOf(node)[j] = args.new_node
          /\ SlotsOf(node)[k] = args.old_node

(***************************************************************************)
(* The two handlers of _remove_redundant_jumps on the same children: the   *)
(* same run of two blocks once as the children of a SequenceNode and once  *)
(* as the children of a MultiNode.                                         *)
(***************************************************************************)
EqvInit ==
    /\ pc = "start"
    /\ args \in {[nodes |-> r] : r \in BlockRuns(2)}
    /\ node = NoNode
    /\ old = NoNode
    /\ ret = NoNode

\* _handle_Sequence and _handle_MultiNode, each on its own copy of the children
EqvCall ==
    /\ pc = "start"
    /\ node' = [seq |-> _remove_redundant_jumps(SequenceNode(1, args.nodes)).nodes,
                multi |-> _remove_redundant_jumps(MultiNode(1, args.nodes)).nodes]
    /\ pc' = "done"
    /\ UNCHANGED <<old, args, ret>>

EqvNext == EqvCall

SpecEqv == EqvInit /\ [][EqvNext]_vars

\* C30: the Sequence handler and the MultiNode handler of
\* _remove_redundant_jumps are equivalent: for the same trailing Jump or
\* ConditionalJump and the same next-sibling address both leave the same
\* statement, with the same condition, the same remaining target and the same
\* target index.
C30_HandlersEquivalent ==
    pc = "done" => node.seq = node.multi

(***************************************************************************)
(* Function (knowledge_plugins/functions/function.py): the transition      *)
(* graph, the local blocks, the start point and the cached local           *)
(* transition graph.  The function is at address 1; its blocks are the     *)
(* BlockNodes at addresses 1 and 2, one node per address; the callee is    *)
(* another Function at address 3.  A call that raises leaves the object as *)
(* it is.                                                                  *)
(***************************************************************************)
MaxOps == 3     \* the number of calls made on the Function object

BlockNode(a) == [kind |-> "BlockNode", addr |-> a, size |-> 1]
Callee == [kind |-> "Function", addr |-> 3]
NoGraph == [cached |-> FALSE]
NoStart == [kind |-> "None"]

\* lines 84-125: the fields of a new Function
NewFunction ==
    [addr |-> 1,
     transition_graph |-> DataDiGraph({}, [e \in {} |-> "x"]),
     _local_transition_graph |-> NoGraph,
     startpoint |-> NoStart,
     _local_blocks |-> {},
     _block_sizes |-> {},
     _addr_to_block_node |-> {},
     _ret_sites |-> {},
     _jumpout_sites |-> {},
     _retout_sites |-> {},
     _endpoints |-> [sort \in {"transition", "exception", "return"} |-> {}]]

\* lines 933-960: _register_node(is_local, node); with one node per address the
\* node it returns is the node it was given
_register_node(F, is_local, n) ==
    IF is_local /\ n \in F._local_blocks THEN F
    ELSE LET G == IF n.addr \notin F._block_sizes /\ n \notin F.transition_graph.nodes
                  THEN add_node(F.transition_graph, n)
                  ELSE F.transition_graph
         IN  IF n.kind # "BlockNode"
             THEN [F EXCEPT !.transition_graph = G]
             ELSE [F EXCEPT
                     !.transition_graph = G,
                     !._block_sizes = @ \cup {n.addr},
                     !.startpoint = IF n.addr = F.addr THEN n ELSE @,
                     !._local_blocks = IF is_local THEN @ \cup {n} ELSE @,
                     !._addr_to_block_node = @ \cup {n.addr}]

\* line 1034
_add_endpoint(F, n, sort) == [F EXCEPT !._endpoints[sort] = @ \cup {n}]

\* lines 648-658
add_jumpout_site(F, n) ==
    LET F1 == _register_node(F, TRUE, n)
    IN  _add_endpoint([F1 EXCEPT !._jumpout_sites = @ \cup {n}], n, "transition")

\* lines 660-678
add_retout_site(F, n) ==
    LET F1 == _register_node(F, TRUE, n)
    IN  _add_endpoint([F1 EXCEPT !._retout_sites = @ \cup {n}], n, "return")

\* lines 962-973
_add_return_site(F, n) ==
    LET F1 == _register_node(F, TRUE, n)
    IN  _add_endpoint([F1 EXCEPT !._ret_sites = @ \cup {n}], n, "return")

\* lines 823-860, with to_node given and no exception edge
_transit_to(F, from_node, to_node, outside) ==
    LET F1 == _register_node(F, TRUE, from_node)
        F2 == _register_node(F1, ~outside, to_node)
        F3 == IF outside THEN [F2 EXCEPT !._jumpout_sites = @ \cup {from_node}] ELSE F2
        F4 == [F3 EXCEPT !.transition_graph =
                  add_edge(@, from_node, to_node,
                           [type |-> "transition", outside |-> outside,
                            ins_addr |-> "None", stmt_idx |-> "None"])]
        F5 == IF outside THEN _add_endpoint(F4, from_node, "transition") ELSE F4
    IN  [F5 EXCEPT !._local_transition_graph = NoGraph]

\* lines 891-903; confirmed is "None" or TRUE
_fakeret_to(F, from_node, to_node, confirmed, to_outside) ==
    LET F1 == _register_node(F, TRUE, from_node)
        F2 == IF confirmed = "True" THEN _register_node(F1, ~to_outside, to_node) ELSE F1
        data == IF confirmed = "None"
                THEN [type |-> "fake_return", outside |-> to_outside]
                ELSE [type |-> "fake_return", confirmed |-> TRUE, outside |-> to_outside]
    IN  [F2 EXCEPT !.transition_graph = add_edge(@, from_node, to_node, data),
                   !._local_transition_graph = NoGraph]

\* lines 862-889, for a callee that is no syscall; ret_node is a node or NoStart
_call_to(F, from_node, to_func, ret_node, return_to_outside) ==
    LET F1 == _register_node(F, TRUE, from_node)
        F2 == [F1 EXCEPT !.transition_graph =
                  add_edge(@, from_node, to_func,
                           [type |-> "call", stmt_idx |-> "None", ins_addr |-> "None"])]
        F3 == IF ret_node # NoStart
              THEN _fakeret_to(_register_node(F2, ~return_to_outside, ret_node),
                               from_node, ret_node, "None", return_to_outside)
              ELSE F2
    IN  [F3 EXCEPT !._local_transition_graph = NoGraph]

\* lines 808-821: whether the call raises AngrValueError
confirm_fakeret_raises(F, src, dst) ==
    \/ ~has_edge(F.transition_graph, src, dst)
    \/ "type" \notin DOMAIN F.transition_graph.edges[<<src, dst>>]
    \/ F.transition_graph.edges[<<src, dst>>]["type"] # "fake_return"

\* lines 808-821: _confirm_fakeret(src, dst) when it does not raise
_confirm_fakeret(F, src, dst) ==
    LET data == F.transition_graph.edges[<<src, dst>>]
        F1 == IF "outside" \notin DOMAIN data \/ data["outside"] = FALSE
              THEN _register_node(F, TRUE, dst)
              ELSE F
    IN  [F1 EXCEPT !.transition_graph.edges[<<src, dst>>] =
            dict_update(@, [confirmed |-> TRUE])]

\* graph.remove_edge(u, v), for an edge that is there
remove_edge(G, u, v) ==
    DataDiGraph(G.nodes, [e \in DOMAIN G.edges \ {<<u, v>>} |-> G.edges[e]])

\* lines 905-908, when the edge is there
_remove_fakeret(F, from_node, to_node) ==
    [F EXCEPT !.transition_graph = remove_edge(@, from_node, to_node),
              !._local_transition_graph = NoGraph]

\* lines 910-916
_return_from_call(F, from_func, to_node, to_outside) ==
    LET G == add_edge(F.transition_graph, from_func, to_node,
                      [type |-> "return", to_outside |-> to_outside])
        confirmed == [e \in DOMAIN G.edges |->
                        IF /\ e[2] = to_node
                           /\ "type" \in DOMAIN G.edges[e]
                           /\ G.edges[e]["type"] = "fake_return"
                        THEN dict_update(G.edges[e], [confirmed |-> TRUE])
                        ELSE G.edges[e]]
    IN  [F EXCEPT !.transition_graph = DataDiGraph(G.nodes, confirmed),
                  !._local_transition_graph = NoGraph]

\* lines 1112-1115: whether an edge of the transition graph is a local one
is_local_edge(data) ==
    /\ "type" \in DOMAIN data
    /\ data["type"] \in {"transition", "exception", "fake_return"}
    /\ ("outside" \notin DOMAIN data \/ data["outside"] = FALSE)

\* lines 1107-1117: the local transition graph built from scratch
build_graph(F) ==
    LET local == {e \in DOMAIN F.transition_graph.edges :
                      is_local_edge(F.transition_graph.edges[e])}
    IN  [cached |-> TRUE,
         nodes |-> (IF F.startpoint # NoStart THEN {F.startpoint} ELSE {})
                     \cup F._local_blocks
                     \cup {e[1] : e \in local} \cup {e[2] : e \in local},
         edges |-> [e \in local |-> F.transition_graph.edges[e]]]

\* lines 1091-1121: the graph property; the Function afterwards and the graph
graph(F) ==
    IF F._local_transition_graph # NoGraph
    THEN [F |-> F, g |-> F._local_transition_graph]
    ELSE [F |-> [F EXCEPT !._local_transition_graph = build_graph(F)],
          g |-> build_graph(F)]

FnBlocks == {BlockNode(1), BlockNode(2)}

FnInit ==
    /\ pc = "called"
    /\ node = NewFunction
    /\ old = NewFunction
    /\ args = [ops |-> 0]
    /\ ret = NoGraph

\* what every call but the read of the graph does to the other variables
Called ==
    /\ old' = node
    /\ args' = [ops |-> args.ops + 1]
    /\ pc' = "called"
    /\ UNCHANGED ret

FnTransitTo ==
    /\ args.ops < MaxOps
    /\ \E from_node \in FnBlocks, to_node \in FnBlocks, outside \in BOOLEAN :
          node' = _transit_to(node, from_node, to_node, outside)
    /\ Called

FnCallTo ==
    /\ args.ops < MaxOps
    /\ \E from_node \in FnBlocks, ret_node \in FnBlocks \cup {NoStart}, outside \in BOOLEAN :
          node' = _call_to(node, from_node, Callee, ret_node, outside)
    /\ Called

FnFakeretTo ==
    /\ args.ops < MaxOps
    /\ \E from_node \in FnBlocks, to_node \in FnBlocks, confirmed \in {"None", "True"},
          to_outside \in BOOLEAN :
          node' = _fakeret_to(node, from_node, to_node, confirmed, to_outside)
    /\ Called

FnConfirmFakeret ==
    /\ args.ops < MaxOps
    /\ \E src \in FnBlocks, dst \in FnBlocks :
          node' = IF confirm_fakeret_raises(node, src, dst)
                  THEN node
                  ELSE _confirm_fakeret(node, src, dst)
    /\ Called

FnRemoveFakeret ==
    /\ args.ops < MaxOps
    /\ \E from_node \in FnBlocks, to_node \in FnBlocks :
          node' = IF has_edge(node.transition_graph, from_node, to_node)
                  THEN _remove_fakeret(node, from_node, to_node)
                  ELSE node
    /\ Called

FnReturnFromCall ==
    /\ args.ops < MaxOps
    /\ \E to_node \in FnBlocks, to_outside \in BOOLEAN :
          node' = _return_from_call(node, Callee, to_node, to_outside)
    /\ Called

FnAddReturnSite ==
    /\ args.ops < MaxOps
    /\ \E n \in FnBlocks : node' = _add_return_site(node, n)
    /\ Called

FnAddJumpoutSite ==
    /\ args.ops < MaxOps
    /\ \E n \in FnBlocks : node' = add_jumpout_site(node, n)
    /\ Called

FnAddRetoutSite ==
    /\ args.ops < MaxOps
    /\ \E n \in FnBlocks : node' = add_retout_site(node, n)
    /\ Called

\* g = function.graph
FnGraph ==
    /\ node' = graph(node).F
    /\ ret' = graph(node).g
    /\ old' = node
    /\ pc' = "read"
    /\ UNCHANGED args

FnNext ==
    \/ FnTransitTo
    \/ FnCallTo
    \/ FnFakeretTo
    \/ FnConfirmFakeret
    \/ FnRemoveFakeret
    \/ FnReturnFromCall
    \/ FnAddReturnSite
    \/ FnAddJumpoutSite
    \/ FnAddRetoutSite
    \/ FnGraph

SpecFn == FnInit /\ [][FnNext]_vars

\* C29: the cached local transition graph of a Function is never stale: after
\* any sequence of the calls that change the function, with reads of the graph
\* property in between, the graph the property returns is the graph built from
\* scratch from the current transition graph, start point and local blocks.
C29_CachedGraphNeverStale ==
    pc = "read" => ret = build_graph(node)

====
